---- MODULE Spec2Model ----
(***************************************************************************)
(* ChromeSync: the history merge into the Zen Browser places database      *)
(* (core/importers/history_importer.py, core/extractors/                   *)
(* history_extractor.py), the password import                              *)
(* (core/importers/password_importer.py) and the synchronization pipeline  *)
(* with its triggers (main.py, gui/sync_worker.py).                        *)
(*                                                                         *)
(* A database file is a record [exists, places, visits]; a place row is    *)
(* [id, url] and a visit row is [id, place_id].  An operation that can     *)
(* raise has one action for each outcome.  The progress callback of the    *)
(* GUI (SyncThread.progress_callback) raises at every report once cancel() *)
(* has been called.                                                        *)
(***************************************************************************)
EXTENDS Integers, Sequences, FiniteSets, TLC

\* ---- bounds ----
MaxItems == 3
MaxDestId == 2
MaxDestVisit == 1

Urls == {"a", "b"}

VARIABLES
    \* ---- history import (HistoryImporter) ----
    history_items,      \* argument of import_history: the URL of each item
    cb,                 \* a progress callback was passed
    cancelled,          \* SyncThread.cancelled
    zenRunning,         \* outcome of _is_zen_browser_running()
    dest,               \* places.sqlite of the profile, as committed on disk
    pre,                \* dest when import_history was called
    txn,                \* rows seen by zen_conn inside its open transaction
    tempDb,             \* the file written by save_to_sqlite
    temp_db_path,       \* import_history's local: "none" or "set"
    backup,             \* places_backup_<time>.sqlite
    place_id_mapping,
    max_place_id,
    max_visit_id,
    idx,                \* enumerate() position of the running loop, from 1
    pc,
    result,             \* "none", "true", "false" or "raised"
    mergeRet,           \* what _import_history_via_database returned
    mergeFault,         \* an exception reached the handler at line 280
    restoreFailed,      \* the handler at line 290 ran
    pkCollision,        \* an INSERT named an id that was already present
    \* ---- password import (PasswordImporter) ----
    passwords,                  \* argument of import_passwords: the plaintext of each credential
    encrypt_temp_files,         \* security.encrypt_temp_files
    pw_cb,                      \* a progress callback was passed
    pw_cancelled,               \* SyncThread.cancelled
    csv,                        \* chrome_passwords_<time>.csv
    temp_csv_path,              \* import_passwords's local: "none" or "set"
    pw_pc,
    pw_result,                  \* "none", "true", "false" or "raised"
    \* ---- synchronization (ChromeSync.synchronize_all), one entry per calling thread ----
    sync_in_progress,           \* ChromeSync.sync_in_progress
    selected,                   \* the data types set in sync.data_types
    require_auth,               \* security.require_auth_for_sensitive_ops
    tokenValid,                 \* a token is held and has not expired
    callers,                    \* the threads that call synchronize_all
    s_cb,                       \* the threads that pass SyncThread.progress_callback
    s_cancelled,                \* SyncThread.cancelled
    s_pc,
    s_ty,                       \* position in the fixed order of the data types
    results,                    \* the types t with results[t] = True
    current_step,
    s_ret,                      \* "none", "true", "false" or "raised"
    pastChecks,                 \* the threads whose call passed lines 209-260
    extractTried,               \* the types whose extract_* was called
    extracted,                  \* the types whose extract_* returned
    importTried,                \* the types whose import_* was called
    imported,                   \* the types whose import_* returned True
    failed,                     \* the types whose extract or import raised or returned False
    interrupted,                \* the types whose try block was left by a raising callback
    cancelTy,                   \* position of the type during which cancel() was called, 0 if none
    emitted,                    \* the values SyncThread.progress has emitted, in order
    \* ---- password extraction (PasswordExtractor.extract_passwords) ----
    use_gui_automation,         \* PasswordExtractor.use_gui_automation
    logins,                     \* the logins rows, ORDER BY date_last_used DESC
    x_cb,                       \* a progress callback was passed
    x_cancelled,                \* SyncThread.cancelled
    x_pc,
    x_i,                        \* enumerate() position of the decryption loop, from 1
    x_passwords,                \* the list the running channel has built
    guiTried,                   \* _extract_passwords_gui_automation was called
    guiRaised,                  \* ... and raised
    directTried,                \* _extract_passwords_direct_access was called
    directRaised,               \* ... and raised
    x_result,                   \* "none", "gui", "direct", "RuntimeError" or "Exception"
    \* ---- timestamps (ChromeHistoryItem.datetime) ----
    visit_time,                 \* ChromeHistoryItem.visit_time, microseconds since 1601
    unix_timestamp,             \* the local of datetime, seconds since 1970
    dt_pc,
    \* ---- bookmark parsing (BookmarkExtractor._parse_bookmarks_data) ----
    b_tree,                     \* the entries under one root of the Bookmarks file, the root first
    b_heap,                     \* the list objects created so far
    b_stack,                    \* the calls of _extract_bookmarks_recursive under way
    b_path,                     \* for each entry the list its ChromeBookmark holds as folder_path, 0 if none
    b_extended,                 \* the entry whose folder_path was appended to afterwards, 0 if none
    b_pc,                       \* position in the parse
    \* ---- secure deletion (utils.security.secure_delete_file) ----
    sd_passes,                  \* the argument passes
    sd_present,                 \* a regular file was at file_path when the call began
    sd_exists,                  \* a file is at file_path
    sd_length,                  \* the byte length of the file when the call began
    file_size,                  \* the local of line 57
    sd_content,                 \* what the file holds: [fill, len]
    sd_written,                 \* the passes completed, in order: [fill, len, synced]
    sd_round,                   \* the loop variable of line 60, from 1
    sd_pc,                      \* position in secure_delete_file
    sd_result,                  \* "none", "true" or "false"
    sd_failed_at,               \* where the try block of line 55 raised, "none" if it did not
    sd_fallback,                \* the unlink of line 88: "none", "ok" or "raised"
    \* ---- service (ServiceManager and the thread of each monitor) ----
    chrome_path,                \* browsers.chrome.path is configured
    hooked,                     \* the event type the callers pass to add_callback and remove_callback
    chrome,                     \* a Chrome process exists
    sv_status,                  \* ServiceManager._status
    sv_error_message,           \* ServiceManager._error_message is not empty
    process_monitor,            \* ServiceManager.process_monitor: 0 for None, or the position in monitors
    monitors,                   \* the ChromeProcessMonitor objects created, in order
    sv_callbacks,               \* ServiceManager._callbacks
    sv_threads,                 \* the threads started, in order: [pc, mon]
    api_pc,                     \* position of the caller of the ServiceManager methods
    api_restart,                \* the stop_service under way was called by restart_service
    sv_ret,                     \* what the last call of start_service or stop_service returned
    wanted,                     \* per event, the callbacks added and not removed since
    \* ---- one call of ChromeProcessMonitor.poll_once ----
    pm_before,                  \* the monitor when poll_once was called
    pm_monitor,                 \* the monitor: [running, chrome_detected, _callbacks]
    pm_seen,                    \* what is_chrome_running() returns, line 149
    pm_event,                   \* the event_type passed to _trigger_callbacks, "none" if none
    pm_i,                       \* position of the loop of line 115, from 1
    pm_calls,                   \* the callbacks invoked, in order
    pm_ret,                     \* "none", "true" or "false"
    pm_pc,                      \* position in poll_once
    \* ---- the configuration (ConfigManager.set and save) ----
    cfg_shared,                 \* self.config[section] is the dict DEFAULT_CONFIG[section], for the known section
    cfg_default,                \* DEFAULT_CONFIG[section] of the known section: key -> value or "absent"
    cfg_value,                  \* self.config[section] of the known section: key -> value or "absent"
    cfg_key,                    \* the argument key
    cfg_arg,                    \* the argument value
    cfg_prev,                   \* self.config[section][key] when set was called
    cfg_ret,                    \* "none", "true" or "false"
    cfg_pc,                     \* position in set
    cfg_section,                \* the argument section: "known" or "other"
    cfg_other,                  \* self.config["other"], a section the schema does not know: "absent", "empty" or "key"
    cfg_op,                     \* the last call: "none", "set" or "save"
    cfg_io_error,               \* the last save could not write the file
    \* ---- the authentication manager (AuthenticationManager) ----
    au_require_auth,            \* self.require_auth
    current_token,              \* self.current_token: "None" or "token"
    token_expiry,               \* self.token_expiry, seconds
    au_time,                    \* time.time(), seconds
    stored_hash,                \* the stored credential: "None", a password or "corrupt"
    au_ret,                     \* what the last call returned: "none", "true" or "false"
    au_failed,                  \* the last authenticate_user returned False
    \* ---- the decryption of one password_value (_extract_passwords_direct_access) ----
    encrypted_password,         \* the row's password_value, a sequence of bytes
    dc_scheme,                  \* "none", "skip", "AESGCM" or "DPAPI"
    initialization_vector,      \* the nonce given to AESGCM.decrypt
    dc_data,                    \* the bytes given to the decryption
    dc_pc,                      \* position in the loop body
    \* ---- one bookmark written as HTML (_write_bookmark_html) ----
    date_added,                 \* bookmark.date_added, microseconds since 1601
    date_modified,              \* bookmark.date_modified
    is_folder,                  \* bookmark.is_folder
    ADD_DATE,                   \* the ADD_DATE written, "none" before
    LAST_MODIFIED,              \* the LAST_MODIFIED written, "none" if there is none
    hw_pc,                      \* position in _write_bookmark_html
    \* ---- one monitor and its polling thread (ChromeProcessMonitor.run_polling_loop) ----
    pl_monitor,                 \* the monitor: [running, chrome_detected, _callbacks]
    pl_chrome,                  \* a Chrome process exists
    pl_at_start,                \* what is_chrome_running() returned in the last start() that started the monitor: "none", "true" or "false"
    pl_events,                  \* the events passed to _trigger_callbacks since that start(), in order
    pl_before,                  \* the monitor when the last poll_once was called
    pl_event,                   \* the event of the poll_once under way, "none" if none
    pl_i,                       \* position of the loop of line 115, from 1
    pl_calls,                   \* the callbacks the last poll_once invoked, in order
    pl_polls,                   \* the calls of poll_once made
    pl_pc,                      \* position of the polling thread in run_polling_loop
    pl_main                     \* position of the thread that creates the monitor: "off", "new", "started" or "stopped"

mergeVars == <<history_items, cb, cancelled, zenRunning, dest, pre, txn, tempDb,
               temp_db_path, backup, place_id_mapping, max_place_id,
               max_visit_id, idx, pc, result, mergeRet, mergeFault,
               restoreFailed, pkCollision>>

pwVars == <<passwords, encrypt_temp_files, pw_cb, pw_cancelled, csv, temp_csv_path,
            pw_pc, pw_result>>

syncVars == <<sync_in_progress, selected, require_auth, tokenValid, callers, s_cb,
              s_cancelled, s_pc, s_ty, results, current_step, s_ret, pastChecks,
              extractTried, extracted, importTried, imported, failed, interrupted,
              cancelTy, emitted>>

extractVars == <<use_gui_automation, logins, x_cb, x_cancelled, x_pc, x_i, x_passwords,
                 guiTried, guiRaised, directTried, directRaised, x_result>>

timeVars == <<visit_time, unix_timestamp, dt_pc>>

bmVars == <<b_tree, b_heap, b_stack, b_path, b_extended, b_pc>>

sdVars == <<sd_passes, sd_present, sd_exists, sd_length, file_size, sd_content,
            sd_written, sd_round, sd_pc, sd_result, sd_failed_at, sd_fallback>>

svVars == <<chrome_path, hooked, chrome, sv_status, sv_error_message, process_monitor,
            monitors, sv_callbacks, sv_threads, api_pc, api_restart, sv_ret, wanted>>

pmVars == <<pm_before, pm_monitor, pm_seen, pm_event, pm_i, pm_calls, pm_ret, pm_pc>>

cfgVars == <<cfg_shared, cfg_default, cfg_value, cfg_key, cfg_arg, cfg_prev, cfg_ret,
             cfg_pc, cfg_section, cfg_other, cfg_op, cfg_io_error>>

auVars == <<au_require_auth, current_token, token_expiry, au_time, stored_hash, au_ret,
            au_failed>>

dcVars == <<encrypted_password, dc_scheme, initialization_vector, dc_data, dc_pc>>

hwVars == <<date_added, date_modified, is_folder, ADD_DATE, LAST_MODIFIED, hw_pc>>

plVars == <<pl_monitor, pl_chrome, pl_at_start, pl_events, pl_before, pl_event, pl_i,
            pl_calls, pl_polls, pl_pc, pl_main>>

\* the components modelled before the ones above, and the ones above
earlierVars == <<mergeVars, pwVars, syncVars, extractVars, timeVars>>

laterVars == <<bmVars, sdVars, svVars, pmVars, cfgVars, auVars, dcVars, hwVars, plVars>>

\* what no step of _parse_bookmarks_data changes outside its own component
bmOthers == <<earlierVars, sdVars, svVars, pmVars, cfgVars, auVars, dcVars, hwVars,
              plVars>>

\* what no step of secure_delete_file changes outside its own component
sdOthers == <<earlierVars, bmVars, svVars, pmVars, cfgVars, auVars, dcVars, hwVars,
              plVars>>

\* what no step of ServiceManager changes outside its own component
svOthers == <<earlierVars, bmVars, sdVars, pmVars, cfgVars, auVars, dcVars, hwVars,
              plVars>>

\* what no step of poll_once changes outside its own component
pmOthers == <<earlierVars, bmVars, sdVars, svVars, cfgVars, auVars, dcVars, hwVars,
              plVars>>

\* what no step of ConfigManager changes outside its own component
cfgOthers == <<earlierVars, bmVars, sdVars, svVars, pmVars, auVars, dcVars, hwVars,
               plVars>>

\* what no step of AuthenticationManager changes outside its own component
auOthers == <<earlierVars, bmVars, sdVars, svVars, pmVars, cfgVars, dcVars, hwVars,
              plVars>>

\* what no step of decryption changes outside its own component
dcOthers == <<earlierVars, bmVars, sdVars, svVars, pmVars, cfgVars, auVars, hwVars,
              plVars>>

\* what no step of _write_bookmark_html changes outside its own component
hwOthers == <<earlierVars, bmVars, sdVars, svVars, pmVars, cfgVars, auVars, dcVars,
              plVars>>

\* what no step of run_polling_loop changes outside its own component
plOthers == <<earlierVars, bmVars, sdVars, svVars, pmVars, cfgVars, auVars, dcVars,
              hwVars>>

vars == <<earlierVars, laterVars>>

\* ---- helpers ----
Ids(rows) == {r.id : r \in rows}

MaxOf(S) == CHOOSE m \in S : \A n \in S : n <= m

MinOf(S) == CHOOSE m \in S : \A n \in S : m <= n

\* SELECT MAX(id) ... fetchone()[0] or 0
MaxId(rows) == IF rows = {} THEN 0 ELSE MaxOf(Ids(rows))

NoFile == [exists |-> FALSE, places |-> {}, visits |-> {}]

NoTemp == [exists |-> FALSE, places |-> <<>>, visits |-> <<>>]

\* ---- the destination stores import_history can be called on ----
Injective(f) == \A a, b \in DOMAIN f : f[a] = f[b] => a = b

DestPlaces ==
    UNION {{{[id |-> i, url |-> f[i]] : i \in S} :
                f \in {g \in [S -> Urls] : Injective(g)}} :
           S \in SUBSET (1..MaxDestId)}

DestVisits(P) ==
    UNION {{{[id |-> v, place_id |-> h[v]] : v \in V} : h \in [V -> Ids(P)]} :
           V \in SUBSET (1..MaxDestVisit)}

InitDests ==
    {NoFile} \cup
    UNION {{[exists |-> TRUE, places |-> P, visits |-> V] : V \in DestVisits(P)} :
           P \in DestPlaces}

ItemLists == UNION {[1..n -> Urls] : n \in 0..MaxItems}

\* as save_to_sqlite, with the visit of item i tied to the row after its place
save_to_sqlite_next_row(items) ==
    [exists |-> TRUE,
     places |-> [i \in 1..Len(items) |-> [id |-> i, url |-> items[i]]],
     visits |-> [i \in 1..Len(items) |-> [id |-> i, place_id |-> i + 1]]]

\* ---- HistoryExtractor.save_to_sqlite: one place row and one visit row per item ----
save_to_sqlite(items) ==
    [exists |-> TRUE,
     places |-> [i \in 1..Len(items) |-> [id |-> i, url |-> items[i]]],
     visits |-> [i \in 1..Len(items) |-> [id |-> i, place_id |-> i]]]

\* ---- pieces of _import_history_via_database ----
\* new_place_id = max_place_id + old_place_id
new_place_id(maxp, old) == maxp + old

\* new_visit_id = max_visit_id + i + 1   (i counts from 0)
new_visit_id_noinc(maxv, i) == maxv + i

new_visit_id(maxv, i) == maxv + i + 1

\* SELECT id FROM moz_places WHERE url = ? : the ids of the matching rows
existing_none(places, url) == {}

\* the lookup run on the committed store, blind to the rows of the open transaction
existing_committed(places, url) == {p.id : p \in {q \in dest.places : q.url = url}}

existing(places, url) == {p.id : p \in {q \in places : q.url = url}}

\* the progress callback raises
Raises == cb /\ cancelled

mergeLocals == <<txn, place_id_mapping, max_place_id, max_visit_id, idx>>

mergeGhosts == <<mergeFault, restoreFailed, pkCollision>>

\* what no step of import_history changes: its inputs and the other components
mergeInputs == <<history_items, cb, zenRunning, pre, pwVars, syncVars, extractVars,
                timeVars, laterVars>>

\* ---- the credentials import_passwords can be called with ----
MaxPasswords == 2

Plaintexts == {"pw1", "pw2"}

PasswordLists == UNION {[1..n -> Plaintexts] : n \in 0..MaxPasswords}

NoCsv == [exists |-> FALSE, rows |-> <<>>]

\* the merge has not been called
IdleMerge ==
    /\ history_items = <<>>
    /\ cb = FALSE
    /\ cancelled = FALSE
    /\ zenRunning = FALSE
    /\ dest = NoFile
    /\ pre = NoFile
    /\ txn = NoFile
    /\ tempDb = NoTemp
    /\ temp_db_path = "none"
    /\ backup = NoFile
    /\ place_id_mapping = <<>>
    /\ max_place_id = 0
    /\ max_visit_id = 0
    /\ idx = 0
    /\ pc = "done"
    /\ result = "none"
    /\ mergeRet = "none"
    /\ mergeFault = FALSE
    /\ restoreFailed = FALSE
    /\ pkCollision = FALSE

\* import_passwords has not been called
IdlePasswords ==
    /\ passwords = <<>>
    /\ encrypt_temp_files = FALSE
    /\ pw_cb = FALSE
    /\ pw_cancelled = FALSE
    /\ csv = NoCsv
    /\ temp_csv_path = "none"
    /\ pw_pc = "done"
    /\ pw_result = "none"

\* ---- the threads that trigger a synchronization and the data types ----
Threads == {"t1", "t2"}

\* main.py 262, 311, 364: passwords, then bookmarks, then history
TypeOrder == <<"passwords", "bookmarks", "history">>

Types == {TypeOrder[k] : k \in 1..Len(TypeOrder)}

\* synchronize_all has not been called
IdleSync ==
    /\ sync_in_progress = FALSE
    /\ selected = {}
    /\ require_auth = FALSE
    /\ tokenValid = FALSE
    /\ callers = {}
    /\ s_cb = {}
    /\ s_cancelled = FALSE
    /\ s_pc = [t \in Threads |-> "done"]
    /\ s_ty = [t \in Threads |-> 1]
    /\ results = [t \in Threads |-> {}]
    /\ current_step = [t \in Threads |-> 0]
    /\ s_ret = [t \in Threads |-> "none"]
    /\ pastChecks = {}
    /\ extractTried = [t \in Threads |-> {}]
    /\ extracted = [t \in Threads |-> {}]
    /\ importTried = [t \in Threads |-> {}]
    /\ imported = [t \in Threads |-> {}]
    /\ failed = [t \in Threads |-> {}]
    /\ interrupted = [t \in Threads |-> {}]
    /\ cancelTy = 0
    /\ emitted = <<>>

\* extract_passwords has not been called
IdleExtract ==
    /\ use_gui_automation = FALSE
    /\ logins = <<>>
    /\ x_cb = FALSE
    /\ x_cancelled = FALSE
    /\ x_pc = "done"
    /\ x_i = 1
    /\ x_passwords = <<>>
    /\ guiTried = FALSE
    /\ guiRaised = FALSE
    /\ directTried = FALSE
    /\ directRaised = FALSE
    /\ x_result = "none"

\* no timestamp is being converted
NoTime == [high |-> 0, low |-> 0, micro |-> 0]

IdleTime ==
    /\ visit_time = NoTime
    /\ unix_timestamp = "none"
    /\ dt_pc = "idle"

\* no call of _parse_bookmarks_data is under way
IdleBookmarks ==
    /\ b_tree = <<>>
    /\ b_heap = <<>>
    /\ b_stack = <<>>
    /\ b_path = <<>>
    /\ b_extended = 0
    /\ b_pc = "idle"

\* no call of secure_delete_file is under way
IdleSecureDelete ==
    /\ sd_passes = 0
    /\ sd_present = FALSE
    /\ sd_exists = FALSE
    /\ sd_length = 0
    /\ file_size = 0
    /\ sd_content = [fill |-> "none", len |-> 0]
    /\ sd_written = <<>>
    /\ sd_round = 0
    /\ sd_pc = "idle"
    /\ sd_result = "none"
    /\ sd_failed_at = "none"
    /\ sd_fallback = "none"

\* no call of ServiceManager is under way
IdleService ==
    /\ chrome_path = FALSE
    /\ hooked = "none"
    /\ chrome = FALSE
    /\ sv_status = "stopped"
    /\ sv_error_message = FALSE
    /\ process_monitor = 0
    /\ monitors = <<>>
    /\ sv_callbacks = <<>>
    /\ sv_threads = <<>>
    /\ api_pc = "off"
    /\ api_restart = FALSE
    /\ sv_ret = "none"
    /\ wanted = <<>>

\* no call of poll_once is under way
IdleMonitor ==
    /\ pm_before = <<>>
    /\ pm_monitor = <<>>
    /\ pm_seen = FALSE
    /\ pm_event = "none"
    /\ pm_i = 0
    /\ pm_calls = <<>>
    /\ pm_ret = "none"
    /\ pm_pc = "idle"

\* no call of ConfigManager is under way
IdleConfig ==
    /\ cfg_shared = FALSE
    /\ cfg_default = <<>>
    /\ cfg_value = <<>>
    /\ cfg_key = "none"
    /\ cfg_arg = "none"
    /\ cfg_prev = "none"
    /\ cfg_ret = "none"
    /\ cfg_pc = "off"
    /\ cfg_section = "none"
    /\ cfg_other = "absent"
    /\ cfg_op = "none"
    /\ cfg_io_error = FALSE

\* no call of AuthenticationManager is under way
IdleAuth ==
    /\ au_require_auth = FALSE
    /\ current_token = "None"
    /\ token_expiry = 0
    /\ au_time = 0
    /\ stored_hash = "None"
    /\ au_ret = "none"
    /\ au_failed = FALSE

\* no call of decryption is under way
IdleDecrypt ==
    /\ encrypted_password = <<>>
    /\ dc_scheme = "none"
    /\ initialization_vector = <<>>
    /\ dc_data = <<>>
    /\ dc_pc = "off"

\* no call of _write_bookmark_html is under way
IdleHtmlWrite ==
    /\ date_added = NoTime
    /\ date_modified = NoTime
    /\ is_folder = FALSE
    /\ ADD_DATE = "none"
    /\ LAST_MODIFIED = "none"
    /\ hw_pc = "off"

\* no call of run_polling_loop is under way
IdlePolling ==
    /\ pl_monitor = <<>>
    /\ pl_chrome = FALSE
    /\ pl_at_start = "none"
    /\ pl_events = <<>>
    /\ pl_before = <<>>
    /\ pl_event = "none"
    /\ pl_i = 0
    /\ pl_calls = <<>>
    /\ pl_polls = 0
    /\ pl_pc = "off"
    /\ pl_main = "off"

IdleEarlier ==
    /\ IdleMerge
    /\ IdlePasswords
    /\ IdleSync
    /\ IdleExtract
    /\ IdleTime

IdleLater ==
    /\ IdleBookmarks
    /\ IdleSecureDelete
    /\ IdleService
    /\ IdleMonitor
    /\ IdleConfig
    /\ IdleAuth
    /\ IdleDecrypt
    /\ IdleHtmlWrite
    /\ IdlePolling

bmIdleOthers ==
    /\ IdleEarlier
    /\ IdleSecureDelete
    /\ IdleService
    /\ IdleMonitor
    /\ IdleConfig
    /\ IdleAuth
    /\ IdleDecrypt
    /\ IdleHtmlWrite
    /\ IdlePolling

sdIdleOthers ==
    /\ IdleEarlier
    /\ IdleBookmarks
    /\ IdleService
    /\ IdleMonitor
    /\ IdleConfig
    /\ IdleAuth
    /\ IdleDecrypt
    /\ IdleHtmlWrite
    /\ IdlePolling

svIdleOthers ==
    /\ IdleEarlier
    /\ IdleBookmarks
    /\ IdleSecureDelete
    /\ IdleMonitor
    /\ IdleConfig
    /\ IdleAuth
    /\ IdleDecrypt
    /\ IdleHtmlWrite
    /\ IdlePolling

pmIdleOthers ==
    /\ IdleEarlier
    /\ IdleBookmarks
    /\ IdleSecureDelete
    /\ IdleService
    /\ IdleConfig
    /\ IdleAuth
    /\ IdleDecrypt
    /\ IdleHtmlWrite
    /\ IdlePolling

cfgIdleOthers ==
    /\ IdleEarlier
    /\ IdleBookmarks
    /\ IdleSecureDelete
    /\ IdleService
    /\ IdleMonitor
    /\ IdleAuth
    /\ IdleDecrypt
    /\ IdleHtmlWrite
    /\ IdlePolling

auIdleOthers ==
    /\ IdleEarlier
    /\ IdleBookmarks
    /\ IdleSecureDelete
    /\ IdleService
    /\ IdleMonitor
    /\ IdleConfig
    /\ IdleDecrypt
    /\ IdleHtmlWrite
    /\ IdlePolling

dcIdleOthers ==
    /\ IdleEarlier
    /\ IdleBookmarks
    /\ IdleSecureDelete
    /\ IdleService
    /\ IdleMonitor
    /\ IdleConfig
    /\ IdleAuth
    /\ IdleHtmlWrite
    /\ IdlePolling

hwIdleOthers ==
    /\ IdleEarlier
    /\ IdleBookmarks
    /\ IdleSecureDelete
    /\ IdleService
    /\ IdleMonitor
    /\ IdleConfig
    /\ IdleAuth
    /\ IdleDecrypt
    /\ IdlePolling

plIdleOthers ==
    /\ IdleEarlier
    /\ IdleBookmarks
    /\ IdleSecureDelete
    /\ IdleService
    /\ IdleMonitor
    /\ IdleConfig
    /\ IdleAuth
    /\ IdleDecrypt
    /\ IdleHtmlWrite

InitMerge ==
    /\ IdleLater
    /\ IdlePasswords
    /\ IdleSync
    /\ IdleExtract
    /\ IdleTime
    /\ history_items \in ItemLists
    /\ cb \in BOOLEAN
    /\ cancelled = FALSE
    /\ zenRunning \in BOOLEAN
    /\ dest \in InitDests
    /\ pre = dest
    /\ txn = NoFile
    /\ tempDb = NoTemp
    /\ temp_db_path = "none"
    /\ backup = NoFile
    /\ place_id_mapping = <<>>
    /\ max_place_id = 0
    /\ max_visit_id = 0
    /\ idx = 0
    /\ pc = "ih_start"
    /\ result = "none"
    /\ mergeRet = "none"
    /\ mergeFault = FALSE
    /\ restoreFailed = FALSE
    /\ pkCollision = FALSE

\* SyncThread.cancel(): the user cancels while the operation runs
Cancel ==
    /\ cb /\ ~cancelled /\ pc # "done"
    /\ cancelled' = TRUE
    /\ UNCHANGED <<mergeInputs, dest, tempDb, temp_db_path, backup, mergeLocals,
                   pc, result, mergeRet, mergeGhosts>>

\* a step of import_history that only moves on, or leaves by `to' with `res'
Goto(to) ==
    /\ pc' = to
    /\ UNCHANGED <<mergeInputs, cancelled, dest, tempDb, temp_db_path, backup,
                   mergeLocals, result, mergeRet, mergeGhosts>>

Leave(res) ==
    /\ pc' = "done"
    /\ result' = res
    /\ UNCHANGED <<mergeInputs, cancelled, dest, tempDb, temp_db_path, backup,
                   mergeLocals, mergeRet, mergeGhosts>>

\* lines 64-66: nothing to import
ih_start ==
    /\ pc = "ih_start"
    /\ IF Len(history_items) = 0 THEN Leave("true") ELSE Goto("ih_report5")

\* lines 80-81: the report outside the try block
ih_report5 ==
    /\ pc = "ih_report5"
    /\ IF Raises THEN Leave("raised") ELSE Goto("ih_zen")

\* import_history without the check of lines 84-89
ih_zen_ignored ==
    /\ pc = "ih_zen"
    /\ Goto("ih_report10")

\* lines 84-89
ih_zen ==
    /\ pc = "ih_zen"
    /\ IF zenRunning
         THEN IF Raises THEN Leave("raised") ELSE Leave("false")
         ELSE Goto("ih_report10")

\* lines 98-99, inside the try block
ih_report10 ==
    /\ pc = "ih_report10"
    /\ IF Raises THEN Goto("ih_except") ELSE Goto("ih_save")

\* line 101: save_to_sqlite returns the path of the file it wrote
ih_save ==
    /\ pc = "ih_save"
    /\ tempDb' = save_to_sqlite(history_items)
    /\ temp_db_path' = "set"
    /\ pc' = "ih_report30"
    /\ UNCHANGED <<mergeInputs, cancelled, dest, backup, mergeLocals, result,
                   mergeRet, mergeGhosts>>

\* line 101: save_to_sqlite raises (history_extractor.py 331-333); the file was
\* created by the CREATE TABLE statements unless connect() itself failed
ih_save_raises ==
    /\ pc = "ih_save"
    /\ \E created \in BOOLEAN :
         tempDb' = [exists |-> created, places |-> <<>>, visits |-> <<>>]
    /\ pc' = "ih_except"
    /\ UNCHANGED <<mergeInputs, cancelled, dest, temp_db_path, backup, mergeLocals,
                   result, mergeRet, mergeGhosts>>

\* lines 103-104
ih_report30 ==
    /\ pc = "ih_report30"
    /\ IF Raises THEN Goto("ih_except") ELSE Goto("m_exists")

\* ---- _import_history_via_database ----

\* an exception inside the try block of line 175: leaving `with zen_conn' rolls
\* the open transaction back, then the handler of line 280 runs
ToExcept(collision) ==
    /\ pc' = "m_except"
    /\ mergeFault' = TRUE
    /\ pkCollision' = (pkCollision \/ collision)
    /\ txn' = NoFile
    /\ UNCHANGED <<mergeInputs, cancelled, dest, tempDb, temp_db_path, backup,
                   place_id_mapping, max_place_id, max_visit_id, idx, result,
                   mergeRet, restoreFailed>>

\* lines 165-167
m_exists ==
    /\ pc = "m_exists"
    /\ IF dest.exists
         THEN Goto("m_report40")
         ELSE /\ mergeRet' = "false"
              /\ result' = "false"
              /\ pc' = "ih_finally"
              /\ UNCHANGED <<mergeInputs, cancelled, dest, tempDb, temp_db_path,
                             backup, mergeLocals, mergeGhosts>>

\* lines 169-170: this report is not yet inside the try block of line 175
m_report40 ==
    /\ pc = "m_report40"
    /\ IF Raises THEN Goto("ih_except") ELSE Goto("m_backup")

\* _import_history_via_database without the copy of line 173
m_backup_skipped ==
    /\ pc = "m_backup"
    /\ Goto("m_report50")

\* line 173: shutil.copy2(places_db_path, places_db_path_backup)
m_backup ==
    /\ pc = "m_backup"
    /\ backup' = dest
    /\ pc' = "m_report50"
    /\ UNCHANGED <<mergeInputs, cancelled, dest, tempDb, temp_db_path, mergeLocals,
                   result, mergeRet, mergeGhosts>>

\* line 173 raises, outside the try block; a partial copy may be left behind
m_backup_raises ==
    /\ pc = "m_backup"
    /\ \E created \in BOOLEAN :
         backup' = [exists |-> created, places |-> {}, visits |-> {}]
    /\ pc' = "ih_except"
    /\ UNCHANGED <<mergeInputs, cancelled, dest, tempDb, temp_db_path, mergeLocals,
                   result, mergeRet, mergeGhosts>>

\* lines 176-177
m_report50 ==
    /\ pc = "m_report50"
    /\ IF Raises THEN ToExcept(FALSE) ELSE Goto("m_maxids")

\* lines 180-201: connect, read both maxima, fetch the places of the temp database
m_maxids ==
    /\ pc = "m_maxids"
    /\ txn' = dest
    /\ max_place_id' = MaxId(dest.places)
    /\ max_visit_id' = MaxId(dest.visits)
    /\ place_id_mapping' = <<>>
    /\ idx' = 1
    /\ pc' = "m_place"
    /\ UNCHANGED <<mergeInputs, cancelled, dest, tempDb, temp_db_path, backup,
                   result, mergeRet, mergeGhosts>>

m_maxids_raises ==
    /\ pc = "m_maxids"
    /\ ToExcept(FALSE)

\* lines 204-239: one iteration of the places loop; after the last one, line 242
m_place ==
    /\ pc = "m_place"
    /\ IF idx > Len(tempDb.places)
         THEN /\ pc' = "m_visit"
              /\ idx' = 1
              /\ UNCHANGED <<mergeInputs, cancelled, dest, tempDb, temp_db_path,
                             backup, txn, place_id_mapping, max_place_id,
                             max_visit_id, result, mergeRet, mergeGhosts>>
         ELSE IF Raises
         THEN ToExcept(FALSE)
         ELSE LET place == tempDb.places[idx]
                  old_place_id == place.id
                  new == new_place_id(max_place_id, old_place_id)
                  ex == existing(txn.places, place.url)
              IN  IF ex # {}
                    THEN /\ place_id_mapping' = (old_place_id :> MinOf(ex)) @@ place_id_mapping
                         /\ idx' = idx + 1
                         /\ UNCHANGED <<mergeInputs, cancelled, dest, tempDb,
                                        temp_db_path, backup, txn, max_place_id,
                                        max_visit_id, pc, result, mergeRet,
                                        mergeGhosts>>
                    ELSE IF new \in Ids(txn.places)
                    THEN ToExcept(TRUE)
                    ELSE /\ txn' = [txn EXCEPT !.places =
                                        @ \cup {[id |-> new, url |-> place.url]}]
                         /\ place_id_mapping' = (old_place_id :> new) @@ place_id_mapping
                         /\ idx' = idx + 1
                         /\ UNCHANGED <<mergeInputs, cancelled, dest, tempDb,
                                        temp_db_path, backup, max_place_id,
                                        max_visit_id, pc, result, mergeRet,
                                        mergeGhosts>>

\* a statement of the places loop raises (sqlite3.Error)
m_place_raises ==
    /\ pc = "m_place"
    /\ idx <= Len(tempDb.places)
    /\ ~Raises
    /\ ToExcept(FALSE)

\* lines 246-272: one iteration of the visits loop
m_visit ==
    /\ pc = "m_visit"
    /\ IF idx > Len(tempDb.visits)
         THEN Goto("m_commit")
         ELSE IF Raises
         THEN ToExcept(FALSE)
         ELSE LET visit == tempDb.visits[idx]
                  old_place_id == visit.place_id
                  new == new_visit_id(max_visit_id, idx - 1)
              IN  IF old_place_id \notin DOMAIN place_id_mapping
                    THEN /\ idx' = idx + 1
                         /\ UNCHANGED <<mergeInputs, cancelled, dest, tempDb,
                                        temp_db_path, backup, txn, place_id_mapping,
                                        max_place_id, max_visit_id, pc, result,
                                        mergeRet, mergeGhosts>>
                    ELSE IF new \in Ids(txn.visits)
                    THEN ToExcept(TRUE)
                    ELSE /\ txn' = [txn EXCEPT !.visits =
                                        @ \cup {[id |-> new,
                                                 place_id |-> place_id_mapping[old_place_id]]}]
                         /\ idx' = idx + 1
                         /\ UNCHANGED <<mergeInputs, cancelled, dest, tempDb,
                                        temp_db_path, backup, place_id_mapping,
                                        max_place_id, max_visit_id, pc, result,
                                        mergeRet, mergeGhosts>>

m_visit_raises ==
    /\ pc = "m_visit"
    /\ idx <= Len(tempDb.visits)
    /\ ~Raises
    /\ ToExcept(FALSE)

\* a commit that replaces the rows of the store by the inserted ones
m_commit_replaces ==
    /\ pc = "m_commit"
    /\ dest' = [txn EXCEPT !.places = @ \ dest.places, !.visits = @ \ dest.visits]
    /\ pc' = "m_report90"
    /\ UNCHANGED <<mergeInputs, cancelled, tempDb, temp_db_path, backup,
                   mergeLocals, result, mergeRet, mergeGhosts>>

\* line 180, leaving `with zen_conn' without an exception: commit
m_commit ==
    /\ pc = "m_commit"
    /\ dest' = txn
    /\ pc' = "m_report90"
    /\ UNCHANGED <<mergeInputs, cancelled, tempDb, temp_db_path, backup,
                   mergeLocals, result, mergeRet, mergeGhosts>>

m_commit_raises ==
    /\ pc = "m_commit"
    /\ ToExcept(FALSE)

\* lines 274-278: the last report comes after the commit
m_report90 ==
    /\ pc = "m_report90"
    /\ IF Raises
         THEN ToExcept(FALSE)
         ELSE /\ mergeRet' = "true"
              /\ pc' = "m_finally"
              /\ UNCHANGED <<mergeInputs, cancelled, dest, tempDb, temp_db_path,
                             backup, mergeLocals, result, mergeGhosts>>

\* lines 280-293, the restore succeeds: remove the store, copy the backup over it
m_except_restore ==
    /\ pc = "m_except"
    /\ dest' = IF backup.exists THEN backup ELSE dest
    /\ mergeRet' = "false"
    /\ pc' = "m_finally"
    /\ UNCHANGED <<mergeInputs, cancelled, tempDb, temp_db_path, backup,
                   mergeLocals, result, mergeGhosts>>

\* line 287 raises: os.remove(places_db_path) fails, the store stays as it is
m_except_remove_fails ==
    /\ pc = "m_except"
    /\ backup.exists /\ dest.exists
    /\ restoreFailed' = TRUE
    /\ mergeRet' = "false"
    /\ pc' = "m_finally"
    /\ UNCHANGED <<mergeInputs, cancelled, dest, tempDb, temp_db_path, backup,
                   mergeLocals, result, mergeFault, pkCollision>>

\* line 288 raises: the store was removed and the copy back fails
m_except_copy_fails ==
    /\ pc = "m_except"
    /\ backup.exists
    /\ dest' = NoFile
    /\ restoreFailed' = TRUE
    /\ mergeRet' = "false"
    /\ pc' = "m_finally"
    /\ UNCHANGED <<mergeInputs, cancelled, tempDb, temp_db_path, backup,
                   mergeLocals, result, mergeFault, pkCollision>>

\* lines 295-301, then `return result' of line 109
m_finally ==
    /\ pc = "m_finally"
    /\ backup' = NoFile
    /\ result' = mergeRet
    /\ pc' = "ih_finally"
    /\ UNCHANGED <<mergeInputs, cancelled, dest, tempDb, temp_db_path, mergeLocals,
                   mergeRet, mergeGhosts>>

\* lines 111-116: the handler of import_history reports the error
ih_except ==
    /\ pc = "ih_except"
    /\ result' = IF Raises THEN "raised" ELSE "false"
    /\ pc' = "ih_finally"
    /\ UNCHANGED <<mergeInputs, cancelled, dest, tempDb, temp_db_path, backup,
                   mergeLocals, mergeRet, mergeGhosts>>

\* lines 118-127: a report, then the deletion of the temporary database
ih_finally ==
    /\ pc = "ih_finally"
    /\ pc' = "done"
    /\ IF temp_db_path = "set" /\ tempDb.exists
         THEN IF Raises
                THEN /\ result' = "raised"
                     /\ UNCHANGED tempDb
                ELSE /\ tempDb' = NoTemp
                     /\ UNCHANGED result
         ELSE UNCHANGED <<tempDb, result>>
    /\ UNCHANGED <<mergeInputs, cancelled, dest, temp_db_path, backup, mergeLocals,
                   mergeRet, mergeGhosts>>

NextMerge ==
    \/ Cancel
    \/ ih_start \/ ih_report5 \/ ih_zen \/ ih_report10
    \/ ih_save \/ ih_save_raises \/ ih_report30
    \/ m_exists \/ m_report40 \/ m_backup \/ m_backup_raises \/ m_report50
    \/ m_maxids \/ m_maxids_raises
    \/ m_place \/ m_place_raises \/ m_visit \/ m_visit_raises
    \/ m_commit \/ m_commit_raises \/ m_report90
    \/ m_except_restore \/ m_except_remove_fails \/ m_except_copy_fails
    \/ m_finally \/ ih_except \/ ih_finally

SpecMerge == InitMerge /\ [][NextMerge]_vars

\* ---- properties of the merge ----

PreUrls == {p.url : p \in pre.places}

PreIdOf(u) == (CHOOSE p \in pre.places : p.url = u).id

NewPlaces(db) == db.places \ pre.places

NewVisits(db) == db.visits \ pre.visits

ItemsOf(u) == {j \in 1..Len(history_items) : history_items[j] = u}

UniqueUrls(places) == \A p, q \in places : p.url = q.url => p = q

\* _import_history_via_database returned True: the merge is committed
Merged == mergeRet = "true"

\* the handler of line 280 has run to its end
FaultHandled == mergeFault /\ pc \in {"m_finally", "ih_finally", "done"}

\* C1: an exception raised between the snapshot and the return of the merge makes
\* the merge return failure and leaves the destination with exactly the place rows
\* and visit rows it had before the merge started.
C1_RollbackRestoresStore ==
    FaultHandled =>
        /\ mergeRet = "false"
        /\ dest.exists
        /\ dest.places = pre.places
        /\ dest.visits = pre.visits

\* C2: for a URL that already exists in the destination the merge inserts no
\* place row, and every imported visit of that URL is inserted with the id of the
\* pre-existing row as its place_id.
C2_MergeDeduplicates ==
    Merged =>
        \A u \in PreUrls :
            /\ \A p \in NewPlaces(dest) : p.url # u
            /\ Cardinality({v \in NewVisits(dest) : v.place_id = PreIdOf(u)})
                   = Cardinality(ItemsOf(u))

C2_Witness ==
    /\ Merged
    /\ \E u \in PreUrls : Cardinality(ItemsOf(u)) >= 2

\* C3: after a successful merge into a destination with one place row per URL,
\* every URL still has exactly one place row, and every visit row the merge
\* inserted names the id of a place row of the destination.
C3_OneRowPerUrl ==
    (Merged /\ UniqueUrls(pre.places)) =>
        /\ UniqueUrls(dest.places)
        /\ \A j \in 1..Len(history_items) :
               \E p \in dest.places : p.url = history_items[j]
        /\ \A v \in NewVisits(dest) : v.place_id \in Ids(dest.places)

C3_Witness ==
    /\ Merged
    /\ \E u \in Urls \ PreUrls : Cardinality(ItemsOf(u)) >= 2
    /\ NewVisits(dest) # {}

\* C4: when no URL of the window exists in the destination, the merge adds as
\* many place rows as the window has distinct URLs and as many visit rows as the
\* window has visits.
C4_CountsOnNewUrls ==
    (Merged /\ \A j \in 1..Len(history_items) : history_items[j] \notin PreUrls) =>
        /\ Cardinality(dest.places) = Cardinality(pre.places)
               + Cardinality({history_items[j] : j \in 1..Len(history_items)})
        /\ Cardinality(dest.visits) = Cardinality(pre.visits) + Len(history_items)

C4_Witness ==
    /\ Merged
    /\ pre.places # {}
    /\ \A j \in 1..Len(history_items) : history_items[j] \notin PreUrls
    /\ Len(history_items) >= 2
    /\ Cardinality({history_items[j] : j \in 1..Len(history_items)}) < Len(history_items)

\* C5: every id the merge assigns is greater than the largest id of its table
\* before the merge, and no INSERT of the merge names an id that is already
\* present, whether pre-existing or inserted earlier by the same merge.
C5_FreshIds ==
    /\ ~pkCollision
    /\ \A db \in {txn, dest} :
           /\ \A p \in NewPlaces(db) : p.id > MaxId(pre.places)
           /\ \A v \in NewVisits(db) : v.id > MaxId(pre.visits)

C5_Witness ==
    /\ Merged
    /\ pre.places # {}
    /\ pre.visits # {}
    /\ NewPlaces(dest) # {}
    /\ Cardinality(NewVisits(dest)) >= 2

\* ---- PasswordImporter.import_passwords ----

\* PasswordExtractor.save_to_csv: one row per credential, the password column
\* holds password.password as it is
save_to_csv(pws) ==
    [exists |-> TRUE, rows |-> [i \in 1..Len(pws) |-> [password |-> pws[i]]]]

pwRaises == pw_cb /\ pw_cancelled

\* what no step of import_passwords changes
pwInputs == <<passwords, encrypt_temp_files, pw_cb, mergeVars, syncVars, extractVars,
             timeVars, laterVars>>

InitPasswords ==
    /\ IdleLater
    /\ IdleMerge
    /\ IdleSync
    /\ IdleExtract
    /\ IdleTime
    /\ passwords \in PasswordLists
    /\ encrypt_temp_files \in BOOLEAN
    /\ pw_cb \in BOOLEAN
    /\ pw_cancelled = FALSE
    /\ csv = NoCsv
    /\ temp_csv_path = "none"
    /\ pw_pc = "ip_start"
    /\ pw_result = "none"

pwCancel ==
    /\ pw_cb /\ ~pw_cancelled /\ pw_pc # "done"
    /\ pw_cancelled' = TRUE
    /\ UNCHANGED <<pwInputs, csv, temp_csv_path, pw_pc, pw_result>>

pwGoto(to) ==
    /\ pw_pc' = to
    /\ UNCHANGED <<pwInputs, pw_cancelled, csv, temp_csv_path, pw_result>>

pwLeave(res) ==
    /\ pw_pc' = "done"
    /\ pw_result' = res
    /\ UNCHANGED <<pwInputs, pw_cancelled, csv, temp_csv_path>>

\* lines 64-66
ip_start ==
    /\ pw_pc = "ip_start"
    /\ IF Len(passwords) = 0 THEN pwLeave("true") ELSE pwGoto("ip_report5")

\* lines 80-81, outside the try block
ip_report5 ==
    /\ pw_pc = "ip_report5"
    /\ IF pwRaises THEN pwLeave("raised") ELSE pwGoto("ip_report10")

\* lines 85-91
ip_report10 ==
    /\ pw_pc = "ip_report10"
    /\ IF pwRaises THEN pwGoto("ip_except") ELSE pwGoto("ip_save")

\* line 93: save_to_csv returns the path of the file it wrote
ip_save ==
    /\ pw_pc = "ip_save"
    /\ csv' = save_to_csv(passwords)
    /\ temp_csv_path' = "set"
    /\ pw_pc' = "ip_report20"
    /\ UNCHANGED <<pwInputs, pw_cancelled, pw_result>>

\* line 93: save_to_csv raises (password_extractor.py 482-484), before open()
\* created the file or after k rows were written
ip_save_raises ==
    /\ pw_pc = "ip_save"
    /\ \/ csv' = NoCsv
       \/ \E k \in 0..Len(passwords) :
            csv' = [exists |-> TRUE, rows |-> SubSeq(save_to_csv(passwords).rows, 1, k)]
    /\ pw_pc' = "ip_except"
    /\ UNCHANGED <<pwInputs, pw_cancelled, temp_csv_path, pw_result>>

\* lines 95-96
ip_report20 ==
    /\ pw_pc = "ip_report20"
    /\ IF pwRaises THEN pwGoto("ip_except") ELSE pwGoto("ip_gui")

\* lines 99-101 and 121-221: _import_passwords_via_gui catches every exception,
\* those of its own reports included, and returns False
ip_gui ==
    /\ pw_pc = "ip_gui"
    /\ \E ok \in BOOLEAN :
         pw_result' = IF pwRaises \/ ~ok THEN "false" ELSE "true"
    /\ pw_pc' = "ip_finally"
    /\ UNCHANGED <<pwInputs, pw_cancelled, csv, temp_csv_path>>

\* lines 103-108
ip_except ==
    /\ pw_pc = "ip_except"
    /\ pw_result' = IF pwRaises THEN "raised" ELSE "false"
    /\ pw_pc' = "ip_finally"
    /\ UNCHANGED <<pwInputs, pw_cancelled, csv, temp_csv_path>>

\* lines 110-119: a report, then the deletion of the CSV file
ip_finally ==
    /\ pw_pc = "ip_finally"
    /\ pw_pc' = "done"
    /\ IF temp_csv_path = "set" /\ csv.exists
         THEN IF pwRaises
                THEN /\ pw_result' = "raised"
                     /\ UNCHANGED csv
                ELSE /\ csv' = NoCsv
                     /\ UNCHANGED pw_result
         ELSE UNCHANGED <<csv, pw_result>>
    /\ UNCHANGED <<pwInputs, pw_cancelled, temp_csv_path>>

NextPasswords ==
    \/ pwCancel
    \/ ip_start \/ ip_report5 \/ ip_report10 \/ ip_save \/ ip_save_raises
    \/ ip_report20 \/ ip_gui \/ ip_except \/ ip_finally

SpecPasswords == InitPasswords /\ [][NextPasswords]_vars

\* C7: when an operation has returned or raised, no temporary artifact it
\* created exists any more: the exported CSV file, the temporary history
\* database, the snapshot of the destination store.
C7_NoArtifactLeft ==
    /\ pw_pc = "done" => ~csv.exists
    /\ pc = "done" => (~tempDb.exists /\ ~backup.exists)

\* C8: with security.encrypt_temp_files set, no file written during a password
\* migration holds a plaintext credential.
C8_NoPlaintextOnDisk ==
    (encrypt_temp_files /\ csv.exists) =>
        \A i \in 1..Len(csv.rows) : csv.rows[i].password \notin Plaintexts

\* ---- ChromeSync.synchronize_all ----

\* the callback of thread t raises: SyncThread.progress_callback after cancel()
sRaises(t) == t \in s_cb /\ s_cancelled

\* main.py 218-222 with the preferences of lines 225-227 applied
InitialResults == {}

\* main.py 230
total_steps == 2 * Cardinality(selected)

\* main.py 421-422: any(results.values())
overall_success(res) == res # {}

\* what no step of synchronize_all changes
syncInputs == <<selected, require_auth, tokenValid, callers, s_cb, mergeVars, pwVars,
                extractVars, timeVars, laterVars>>

\* the locals of a call and the record of what it attempted
syncLocals == <<s_ty, results, current_step, extractTried, extracted, importTried,
                imported, failed, interrupted>>

\* SyncThread.cancelled and the record of when it was set
cancelState == <<s_cancelled, cancelTy>>

syncRest == <<syncInputs, syncLocals, sync_in_progress, cancelState, s_ret>>

\* one ChromeSync object: the background triggers (start-up, Chrome launch,
\* Chrome close) pass no callback and may run side by side; the GUI passes the
\* callback of its SyncThread to an object of its own
InitSync ==
    /\ IdleLater
    /\ IdleMerge
    /\ IdlePasswords
    /\ IdleExtract
    /\ IdleTime
    /\ sync_in_progress = FALSE
    /\ selected \in SUBSET Types
    /\ require_auth \in BOOLEAN
    /\ tokenValid \in BOOLEAN
    /\ callers \in {{"t1"}, Threads}
    /\ s_cb \in IF callers = Threads THEN {{}} ELSE {{}, {"t1"}}
    /\ s_cancelled = FALSE
    /\ s_pc = [t \in Threads |-> IF t \in callers THEN "check" ELSE "done"]
    /\ s_ty = [t \in Threads |-> 1]
    /\ results = [t \in Threads |-> InitialResults]
    /\ current_step = [t \in Threads |-> 0]
    /\ s_ret = [t \in Threads |-> "none"]
    /\ pastChecks = {}
    /\ extractTried = [t \in Threads |-> {}]
    /\ extracted = [t \in Threads |-> {}]
    /\ importTried = [t \in Threads |-> {}]
    /\ imported = [t \in Threads |-> {}]
    /\ failed = [t \in Threads |-> {}]
    /\ interrupted = [t \in Threads |-> {}]
    /\ cancelTy = 0
    /\ emitted = <<>>

\* main.py 233-237: update_progress rescales a step's own progress (of
\* step_total = 100) into the overall range; int() truncates
update_progress(t, step_progress) ==
    (100 * (100 * current_step[t] + step_progress)) \div (100 * total_steps)

\* main.py 278, 287 and the like: int(100 * current_step / total_steps)
step_report(t) == (100 * current_step[t]) \div total_steps

\* SyncThread.progress_callback tests the flag first and emits nothing once
\* cancelled
progress_callback_silent(log, current) ==
    [log |-> IF s_cancelled THEN log ELSE Append(log, current), raised |-> s_cancelled]

\* SyncThread.progress_callback never raises
progress_callback_deaf(log, current) ==
    [log |-> Append(log, current), raised |-> FALSE]

\* sync_worker.py 41-60: SyncThread.progress_callback emits the signal, then
\* reads the flag and raises if it is set
progress_callback(log, current) ==
    [log |-> Append(log, current), raised |-> s_cancelled]

\* reports made one after the other: the first that raises ends them
RECURSIVE report_seq(_, _)
report_seq(log, vs) ==
    IF vs = <<>>
      THEN [log |-> log, raised |-> FALSE]
      ELSE LET r == progress_callback(log, Head(vs))
           IN  IF r.raised THEN r ELSE report_seq(r.log, Tail(vs))

\* the reports of thread t, added to log: only a call that was given the
\* callback reports
ReportsFrom(t, log, vs) ==
    IF t \in s_cb THEN report_seq(log, vs) ELSE [log |-> log, raised |-> FALSE]

Reports(t, vs) == ReportsFrom(t, emitted, vs)

\* the positions of a call that are inside the try block of a data type
InType == {"pre", "extract", "post", "import", "type_except"}

\* SyncThread.cancel
sCancel ==
    /\ ~s_cancelled
    /\ \E t \in s_cb :
         /\ s_pc[t] # "done"
         /\ cancelTy' = IF s_pc[t] \in InType THEN s_ty[t] ELSE 0
    /\ s_cancelled' = TRUE
    /\ UNCHANGED <<pastChecks, syncInputs, syncLocals, sync_in_progress, s_pc, s_ret,
                   emitted>>

sGoto(t, to) ==
    /\ s_pc' = [s_pc EXCEPT ![t] = to]
    /\ UNCHANGED <<pastChecks, syncInputs, syncLocals, sync_in_progress, cancelState,
                   s_ret, emitted>>

\* a report, then the step to the next position
sReportGoto(t, r, to) ==
    /\ emitted' = r.log
    /\ s_pc' = [s_pc EXCEPT ![t] = to]
    /\ UNCHANGED <<pastChecks, syncInputs, syncLocals, sync_in_progress, cancelState,
                   s_ret>>

\* a return statement inside the outer try: the finally block runs next
sReturn(t, r, res) ==
    /\ emitted' = r.log
    /\ s_pc' = [s_pc EXCEPT ![t] = "finally"]
    /\ s_ret' = [s_ret EXCEPT ![t] = res]
    /\ UNCHANGED <<pastChecks, syncInputs, syncLocals, sync_in_progress, cancelState>>

\* line 200: the test of the flag
s_check(t) ==
    /\ s_pc[t] = "check"
    /\ IF sync_in_progress
         THEN /\ s_pc' = [s_pc EXCEPT ![t] = "done"]
              /\ s_ret' = [s_ret EXCEPT ![t] = "false"]
         ELSE /\ s_pc' = [s_pc EXCEPT ![t] = "set"]
              /\ UNCHANGED s_ret
    /\ UNCHANGED <<pastChecks, syncInputs, syncLocals, sync_in_progress, cancelState,
                   emitted>>

\* line 204: the flag is set
s_set(t) ==
    /\ s_pc[t] = "set"
    /\ sync_in_progress' = TRUE
    /\ s_pc' = [s_pc EXCEPT ![t] = "auth"]
    /\ UNCHANGED <<pastChecks, syncInputs, syncLocals, cancelState, s_ret, emitted>>

\* auth.py 144-168
sensitive_operations == {"password_sync", "config_export", "config_import",
                         "secure_delete", "profile_create", "profile_delete"}

require_authentication(operation_name) ==
    operation_name \in sensitive_operations \/ require_auth

\* auth.py 128-142
validate_token == ~require_auth \/ tokenValid

\* lines 209-215: the authentication check
s_auth(t) ==
    /\ s_pc[t] = "auth"
    /\ IF require_authentication("password_sync") /\ ~validate_token
         THEN LET r == Reports(t, <<0>>)
              IN  IF r.raised
                    THEN sReportGoto(t, r, "outer_except")
                    ELSE sReturn(t, r, "false")
         ELSE sGoto(t, "profile")

\* lines 240-260: the profile is found, is missing, or its detection raises;
\* a report that raises inside this try block is caught by its handler, whose
\* own report raises again and reaches the outer handler
s_profile(t) ==
    /\ s_pc[t] = "profile"
    /\ \E detect \in {"found", "none", "raises"} :
         LET r == Reports(t, IF detect = "found" THEN <<5>>
                             ELSE IF detect = "none" THEN <<0>> ELSE <<>>)
             h == ReportsFrom(t, r.log, <<0>>)
         IN  IF detect = "raises" \/ r.raised
               THEN IF h.raised
                      THEN sReportGoto(t, h, "outer_except")
                      ELSE sReturn(t, h, "false")
               ELSE IF detect = "found"
                      THEN /\ emitted' = r.log
                           /\ s_pc' = [s_pc EXCEPT ![t] = "type"]
                           /\ pastChecks' = pastChecks \cup {t}
                           /\ UNCHANGED syncRest
                      ELSE sReturn(t, r, "false")

\* the types are taken in the opposite order
TypeAt_reversed(k) == TypeOrder[Len(TypeOrder) + 1 - k]

\* the k-th block of synchronize_all (lines 262, 311, 364)
TypeAt(k) == TypeOrder[k]

\* lines 263, 312, 365: the next data type in the fixed order, if it is selected
s_next(t) ==
    /\ s_pc[t] = "type"
    /\ IF s_ty[t] > Len(TypeOrder)
         THEN sGoto(t, "final")
         ELSE IF TypeAt(s_ty[t]) \in selected
                THEN sGoto(t, "pre")
                ELSE /\ s_ty' = [s_ty EXCEPT ![t] = @ + 1]
                     /\ UNCHANGED <<pastChecks, syncInputs, sync_in_progress, cancelState,
                                    s_pc, s_ret, results, current_step, extractTried,
                                    extracted, importTried, imported, failed, interrupted,
                                    emitted>>

\* the type whose try block thread t is in
CurrentType(t) == TypeAt(s_ty[t])

\* a report of a type's try block raised: its handler runs next
sInterrupt(t, r) ==
    /\ emitted' = r.log
    /\ interrupted' = [interrupted EXCEPT ![t] = @ \cup {CurrentType(t)}]
    /\ s_pc' = [s_pc EXCEPT ![t] = "type_except"]
    /\ UNCHANGED <<pastChecks, syncInputs, sync_in_progress, cancelState, s_ret, s_ty,
                   results, current_step, extractTried, extracted, importTried, imported,
                   failed>>

\* lines 266-267, 315-320, 371-376: the report that opens a type's try block
s_pre(t) ==
    /\ s_pc[t] = "pre"
    /\ LET r == Reports(t, <<IF CurrentType(t) = "passwords" THEN 10 ELSE step_report(t)>>)
       IN  IF r.raised THEN sInterrupt(t, r) ELSE sReportGoto(t, r, "extract")

\* the step_progress values extract_* itself reports when it succeeds:
\* password_extractor.py 132-138 or 149-155, bookmark_extractor.py 126-141,
\* history_extractor.py 155-221
ExtractReports(ty) ==
    IF ty = "passwords" THEN <<0, 100>>
    ELSE IF ty = "bookmarks" THEN <<10, 30, 100>>
    ELSE <<10, 20, 30, 95>>

\* ... and when it fails: the first report, then the report of the failure
\* (password_extractor.py 159-164, bookmark_extractor.py 145-151,
\* history_extractor.py 225-231)
ExtractFailReports(ty) == IF ty = "passwords" THEN <<0, 0>> ELSE <<10, 0>>

\* the report of the handler that catches a raising first report: that of
\* extract_passwords is inside its try block (lines 131-145), those of the
\* other two are not
ExtractHandlerReports(ty) == IF ty = "passwords" THEN <<0>> ELSE <<>>

\* the values update_progress hands on for the step_progress values vs
Rescaled(t, vs) == [i \in 1..Len(vs) |-> update_progress(t, vs[i])]

\* lines 270-274, 323-327, 379-384: extract_* returns or raises; with a
\* cancelled callback its first report raises
s_extract(t) ==
    /\ s_pc[t] = "extract"
    /\ extractTried' = [extractTried EXCEPT ![t] = @ \cup {CurrentType(t)}]
    /\ \E ok \in BOOLEAN :
         LET r == Reports(t, Rescaled(t, IF ok THEN ExtractReports(CurrentType(t))
                                         ELSE ExtractFailReports(CurrentType(t))))
             h == ReportsFrom(t, r.log, Rescaled(t, ExtractHandlerReports(CurrentType(t))))
         IN  IF ok /\ ~r.raised
               THEN /\ emitted' = r.log
                    /\ extracted' = [extracted EXCEPT ![t] = @ \cup {CurrentType(t)}]
                    /\ current_step' = [current_step EXCEPT ![t] = @ + 1]
                    /\ s_pc' = [s_pc EXCEPT ![t] = "post"]
                    /\ UNCHANGED <<failed, interrupted>>
               ELSE /\ emitted' = IF r.raised THEN h.log ELSE r.log
                    /\ failed' = [failed EXCEPT ![t] = @ \cup {CurrentType(t)}]
                    /\ interrupted' = IF r.raised
                                        THEN [interrupted EXCEPT ![t] = @ \cup {CurrentType(t)}]
                                        ELSE interrupted
                    /\ s_pc' = [s_pc EXCEPT ![t] = "type_except"]
                    /\ UNCHANGED <<extracted, current_step>>
    /\ UNCHANGED <<pastChecks, syncInputs, sync_in_progress, cancelState, s_ret, s_ty,
                   results, importTried, imported>>

\* lines 276-291, 329-344, 386-401: the two reports between extract and import
s_post(t) ==
    /\ s_pc[t] = "post"
    /\ LET r == Reports(t, <<step_report(t), step_report(t)>>)
       IN  IF r.raised THEN sInterrupt(t, r) ELSE sReportGoto(t, r, "import")

\* the step_progress values import_* itself reports (password_importer.py
\* 80-114, bookmark_importer.py 76-110, history_importer.py 80-122, 274-275):
\* none when it returns True for an empty list; to the clean-up when it returns
\* True; the failure when the save raised and it returns False; to the
\* clean-up when os.remove raises there
ImportReports(ty, res) ==
    LET saved == IF ty = "history" THEN 30 ELSE 20
    IN  IF res = "empty" THEN <<>>
        ELSE IF res = "true" THEN <<5, 10, saved, 90, 95>>
        ELSE IF res = "false" THEN <<5, 10, 0>>
        ELSE <<5, 10, saved, 95>>

\* lines 294-303, 347-356, 404-413: import_* returns True or False, or raises;
\* with a cancelled callback it returns True for an empty list (the importers'
\* first test) and raises at its first report otherwise
s_import(t) ==
    /\ s_pc[t] = "import"
    /\ importTried' = [importTried EXCEPT ![t] = @ \cup {CurrentType(t)}]
    /\ \E res \in {"empty", "true", "false", "raises"} :
         LET r == Reports(t, Rescaled(t, ImportReports(CurrentType(t), res)))
         IN  /\ emitted' = r.log
             /\ IF res = "raises" \/ r.raised
                  THEN /\ failed' = [failed EXCEPT ![t] = @ \cup {CurrentType(t)}]
                       /\ interrupted' = IF r.raised
                                           THEN [interrupted EXCEPT ![t] = @ \cup {CurrentType(t)}]
                                           ELSE interrupted
                       /\ s_pc' = [s_pc EXCEPT ![t] = "type_except"]
                       /\ UNCHANGED <<imported, results, current_step, s_ty>>
                  ELSE /\ current_step' = [current_step EXCEPT ![t] = @ + 1]
                       /\ s_ty' = [s_ty EXCEPT ![t] = @ + 1]
                       /\ s_pc' = [s_pc EXCEPT ![t] = "type"]
                       /\ UNCHANGED interrupted
                       /\ IF res \in {"empty", "true"}
                            THEN /\ results' = [results EXCEPT ![t] = @ \cup {CurrentType(t)}]
                                 /\ imported' = [imported EXCEPT ![t] = @ \cup {CurrentType(t)}]
                                 /\ UNCHANGED failed
                            ELSE /\ results' = [results EXCEPT ![t] = @ \ {CurrentType(t)}]
                                 /\ failed' = [failed EXCEPT ![t] = @ \cup {CurrentType(t)}]
                                 /\ UNCHANGED imported
    /\ UNCHANGED <<pastChecks, syncInputs, sync_in_progress, cancelState, s_ret,
                   extractTried, extracted>>

\* the handler of a type's try block stops the run instead of recording the
\* failure
type_except_aborts(t) ==
    /\ s_pc' = [s_pc EXCEPT ![t] = "outer_except"]
    /\ UNCHANGED <<pastChecks, syncInputs, syncLocals, sync_in_progress, cancelState,
                   s_ret, emitted>>

\* lines 305-309, 358-362, 415-419: the handler of a type's try block
type_except(t) ==
    /\ results' = [results EXCEPT ![t] = @ \ {CurrentType(t)}]
    /\ current_step' = [current_step EXCEPT ![t] = @ + 2]
    /\ s_ty' = [s_ty EXCEPT ![t] = @ + 1]
    /\ s_pc' = [s_pc EXCEPT ![t] = "type"]
    /\ UNCHANGED <<pastChecks, syncInputs, sync_in_progress, cancelState, s_ret,
                   extractTried, extracted, importTried, imported, failed, interrupted,
                   emitted>>

s_type_except(t) ==
    /\ s_pc[t] = "type_except"
    /\ type_except(t)

\* lines 421-432: the overall result, the last report, the return
s_final(t) ==
    /\ s_pc[t] = "final"
    /\ LET r == Reports(t, <<100>>)
       IN  IF r.raised
             THEN sReportGoto(t, r, "outer_except")
             ELSE sReturn(t, r, IF overall_success(results[t]) THEN "true" ELSE "false")

\* lines 434-439: the outer handler reports and returns False; a report that
\* raises here leaves synchronize_all by the exception
s_outer_except(t) ==
    /\ s_pc[t] = "outer_except"
    /\ LET r == Reports(t, <<0>>)
       IN  sReturn(t, r, IF r.raised THEN "raised" ELSE "false")

\* synchronize_all without the assignment of line 442
s_finally_keeps(t) ==
    /\ s_pc[t] = "finally"
    /\ s_pc' = [s_pc EXCEPT ![t] = "done"]
    /\ UNCHANGED <<pastChecks, syncInputs, syncLocals, sync_in_progress, cancelState,
                   s_ret, emitted>>

\* lines 441-442
s_finally(t) ==
    /\ s_pc[t] = "finally"
    /\ sync_in_progress' = FALSE
    /\ s_pc' = [s_pc EXCEPT ![t] = "done"]
    /\ UNCHANGED <<pastChecks, syncInputs, syncLocals, cancelState, s_ret, emitted>>

NextSync ==
    \/ sCancel
    \/ \E t \in Threads :
         \/ s_check(t) \/ s_set(t) \/ s_auth(t) \/ s_profile(t) \/ s_next(t)
         \/ s_pre(t) \/ s_extract(t) \/ s_post(t) \/ s_import(t)
         \/ s_type_except(t) \/ s_final(t) \/ s_outer_except(t) \/ s_finally(t)

SpecSync == InitSync /\ [][NextSync]_vars

\* the runs that passed the test of line 200 and set the flag, and have not ended
InFlight == {t \in Threads : s_pc[t] \notin {"check", "set", "done"}}

\* C6: at most one synchronization run is in flight at any time, whatever the
\* interleaving of the triggers.
C6_AtMostOneRun == Cardinality(InFlight) <= 1

TypeIndex(ty) == CHOOSE k \in 1..Len(TypeOrder) : TypeOrder[k] = ty

\* the call of thread t passed the checks, has ended, and its callback never raised
EndedUncancelled(t) ==
    /\ t \in pastChecks
    /\ s_pc[t] = "done"
    /\ ~sRaises(t)

\* C9: without cancellation, a type whose extract or import raised or returned
\* False is recorded as failed and nothing else is: each recorded result is that
\* type's own import result, and every later selected type has its extract
\* called, and its import called once its own extract has returned.
C9_FailureIsolated ==
    \A t \in Threads :
        EndedUncancelled(t) =>
            /\ results[t] = imported[t]
            /\ \A f \in failed[t] :
                 /\ f \notin results[t]
                 /\ \A ty \in selected :
                      TypeIndex(f) < TypeIndex(ty) =>
                          /\ ty \in extractTried[t]
                          /\ ty \in extracted[t] => ty \in importTried[t]

\* the first type failed and the last one was imported all the same
C9_Witness ==
    /\ EndedUncancelled("t1")
    /\ "passwords" \in failed["t1"]
    /\ "bookmarks" \in failed["t1"] /\ "bookmarks" \notin extracted["t1"]
    /\ "history" \in imported["t1"]

\* C10: a call of synchronize_all that passed the authentication and profile
\* checks returns True exactly when some selected type was imported
\* successfully.
C10_TrueIffSomeImported ==
    \A t \in Threads :
        (t \in pastChecks /\ s_pc[t] = "done") =>
            (s_ret[t] = "true" <=> imported[t] \cap selected # {})

\* main.py 218-222, 303, 308: what results holds for a type
TypeMark(t, ty) == IF ty \in results[t] THEN "true" ELSE "false"

\* sync_worker.py 62-80 (with main_window.py 76-110): what SyncThread.run
\* makes of the outcome of synchronize_all: its value, False for an exception
SyncThread_run(ret) == IF ret = "true" THEN "true" ELSE "false"

\* C11: a run stopped by cancellation has an outcome of its own: the
\* interrupted type is not marked as a failed type is, and the caller does not
\* receive what it receives for a failed run.
C11_CancelledDistinct ==
    \A t \in Threads :
        (s_pc[t] = "done" /\ interrupted[t] # {}) =>
            /\ \A ty \in interrupted[t] : TypeMark(t, ty) # "false"
            /\ SyncThread_run(s_ret[t]) # SyncThread_run("false")

\* C12: once cancel() has been called during a data type, no extract and no
\* import of a later data type is started in that run.
C12_NoLaterTypeAfterCancel ==
    cancelTy # 0 =>
        \A t \in s_cb :
            \A ty \in extractTried[t] \cup importTried[t] : TypeIndex(ty) <= cancelTy

\* cancelled during the first of three selected types, and the run has ended
C12_Witness ==
    /\ cancelTy = 1
    /\ selected = Types
    /\ s_pc["t1"] = "done"
    /\ "passwords" \in extractTried["t1"]
    /\ Len(emitted) > 4

\* the positions where synchronize_all does nothing but report
ReportOnly == {"pre", "post", "final"}

RaisedTo(at) == IF at = "final" THEN "outer_except" ELSE "type_except"

\* C13: every progress report emits the signal; it returns normally before
\* cancel() and raises after it, so the first report after cancel() raises.
C13_EmitThenRaise ==
    [][\A t \in s_cb :
         (s_pc[t] \in ReportOnly /\ s_pc'[t] # s_pc[t]) =>
             /\ Len(emitted') > Len(emitted)
             /\ s_cancelled => (Len(emitted') = Len(emitted) + 1 /\ s_pc'[t] = RaisedTo(s_pc[t]))
             /\ ~s_cancelled => s_pc'[t] # RaisedTo(s_pc[t])]_vars

\* a report made after cancel() was emitted and raised
C13_Witness ==
    /\ s_cancelled
    /\ s_pc["t1"] = "type_except"
    /\ "bookmarks" \in interrupted["t1"]
    /\ "bookmarks" \notin extractTried["t1"]
    /\ Len(emitted) >= 3

\* C14: the overall progress values delivered to the callback never decrease.
C14_Monotone ==
    \A i \in 1..(Len(emitted) - 1) : emitted[i] <= emitted[i + 1]

\* C15: every overall progress value delivered to the callback is in 0..100.
C15_InRange ==
    \A i \in 1..Len(emitted) : emitted[i] \in 0..100

\* the types of which thread t has started an operation
Started(t) ==
    extractTried[t] \cup importTried[t]
        \cup (IF s_pc[t] \in InType THEN {CurrentType(t)} ELSE {})

\* the try block of type e has been left for good: its import returned, or
\* its extract or import failed, or a report in it raised
Finished(t, e) ==
    /\ TypeIndex(e) < s_ty[t]
    /\ e \in imported[t] \cup failed[t] \cup interrupted[t]

\* C16: the selected types are processed in the order passwords, bookmarks,
\* history: when an operation of a type has started, every selected type
\* before it has finished or failed.
C16_FixedOrder ==
    \A t \in Threads :
        \A ty \in Started(t) :
            \A e \in selected :
                TypeIndex(e) < TypeIndex(ty) => Finished(t, e)

\* all three types were imported, one after the other
C16_Witness ==
    /\ s_pc["t1"] = "done"
    /\ imported["t1"] = Types

\* ---- PasswordExtractor.extract_passwords ----

MaxRows == 3

\* a row's password_value: one that decrypts, one that does not, an empty one
Kinds == {"good", "corrupt", "empty"}

\* the rows in the order of the query, each known by its position in it
LoginRows ==
    UNION {{[i \in 1..n |-> [id |-> i, kind |-> k[i]]] : k \in [1..n -> Kinds]} : n \in 0..MaxRows}

xRaises == x_cb /\ x_cancelled

\* what no step of extract_passwords changes
extractInputs == <<use_gui_automation, logins, x_cb, mergeVars, pwVars, syncVars,
                  timeVars, laterVars>>

extractTrace == <<guiTried, guiRaised, directTried, directRaised>>

InitExtract ==
    /\ IdleLater
    /\ IdleMerge
    /\ IdlePasswords
    /\ IdleSync
    /\ IdleTime
    /\ use_gui_automation \in BOOLEAN
    /\ logins \in LoginRows
    /\ x_cb \in BOOLEAN
    /\ x_cancelled = FALSE
    /\ x_pc = "start"
    /\ x_i = 1
    /\ x_passwords = <<>>
    /\ guiTried = FALSE
    /\ guiRaised = FALSE
    /\ directTried = FALSE
    /\ directRaised = FALSE
    /\ x_result = "none"

\* SyncThread.cancel
xCancel ==
    /\ x_cb /\ ~x_cancelled /\ x_pc # "done"
    /\ x_cancelled' = TRUE
    /\ UNCHANGED <<extractInputs, extractTrace, x_pc, x_i, x_passwords, x_result>>

xGoto(to) ==
    /\ x_pc' = to
    /\ UNCHANGED <<extractInputs, extractTrace, x_cancelled, x_i, x_passwords, x_result>>

\* extract_passwords returns its list or raises
xLeave(res) ==
    /\ x_pc' = "done"
    /\ x_result' = res
    /\ UNCHANGED <<extractInputs, extractTrace, x_cancelled, x_i, x_passwords>>

\* line 130
x_start ==
    /\ x_pc = "start"
    /\ IF use_gui_automation THEN xGoto("gui_report0") ELSE xGoto("direct_report0")

\* lines 131-133
x_gui_report0 ==
    /\ x_pc = "gui_report0"
    /\ IF xRaises THEN xGoto("gui_except") ELSE xGoto("gui")

\* what Chrome's own export holds: every stored login
GuiExport == [i \in 1..Len(logins) |-> logins[i].id]

\* line 135 and lines 166-266: the automation channel returns the parsed
\* export or raises; with a cancelled callback its first report (line 200) raises
x_gui ==
    /\ x_pc = "gui"
    /\ guiTried' = TRUE
    /\ \E ok \in BOOLEAN :
         IF ok /\ ~xRaises
           THEN /\ x_passwords' = GuiExport
                /\ x_pc' = "gui_report100"
                /\ UNCHANGED guiRaised
           ELSE /\ guiRaised' = TRUE
                /\ x_pc' = "gui_except"
                /\ UNCHANGED x_passwords
    /\ UNCHANGED <<extractInputs, directTried, directRaised, x_cancelled, x_i, x_result>>

\* lines 137-140
x_gui_report100 ==
    /\ x_pc = "gui_report100"
    /\ IF xRaises THEN xGoto("gui_except") ELSE xLeave("gui")

\* the handler of the automation channel gives up
after_gui_except_gives_up == "direct_except"

\* lines 142-148: after the handler's report the direct-access channel is next
after_gui_except == "direct_report0"

\* lines 142-145: the handler's report is outside every try block
x_gui_except ==
    /\ x_pc = "gui_except"
    /\ IF xRaises THEN xLeave("Exception") ELSE xGoto(after_gui_except)

\* lines 148-150
x_direct_report0 ==
    /\ x_pc = "direct_report0"
    /\ IF xRaises THEN xGoto("direct_except") ELSE xGoto("direct")

\* line 152 and lines 316-381: the files are located, the key is read and the
\* rows are queried, or one of these raises; with a cancelled callback the
\* first report (line 334) raises
x_direct ==
    /\ x_pc = "direct"
    /\ directTried' = TRUE
    /\ \E ok \in BOOLEAN :
         IF ok /\ ~xRaises
           THEN /\ x_pc' = "row"
                /\ x_i' = 1
                /\ x_passwords' = <<>>
                /\ UNCHANGED directRaised
           ELSE /\ directRaised' = TRUE
                /\ x_pc' = "direct_except"
                /\ UNCHANGED <<x_i, x_passwords>>
    /\ UNCHANGED <<extractInputs, guiTried, guiRaised, x_cancelled, x_result>>

\* a row that does not decrypt ends the batch
process_row_abort(out, row) ==
    IF row.kind = "good" THEN Append(out, row.id) ELSE <<>>

\* lines 391-429: an empty password_value is skipped, a row that decrypts is
\* appended, an exception of the decryption is logged and the row skipped
process_row(out, row) ==
    IF row.kind = "empty" THEN out
    ELSE IF row.kind = "good" THEN Append(out, row.id)
    ELSE out

\* lines 383-429: one pass of the loop; the report is inside the row's try
\* block, so a raising callback is logged as a failed row
x_row ==
    /\ x_pc = "row"
    /\ IF x_i > Len(logins)
         THEN /\ x_pc' = "direct_report95"
              /\ UNCHANGED <<x_i, x_passwords>>
         ELSE /\ x_passwords' = IF xRaises THEN x_passwords
                                ELSE process_row(x_passwords, logins[x_i])
              /\ x_i' = x_i + 1
              /\ UNCHANGED x_pc
    /\ UNCHANGED <<extractInputs, extractTrace, x_cancelled, x_result>>

\* lines 432-438: the last report of the channel, inside its try block
x_direct_report95 ==
    /\ x_pc = "direct_report95"
    /\ IF xRaises
         THEN /\ directRaised' = TRUE
              /\ x_pc' = "direct_except"
              /\ UNCHANGED <<extractInputs, guiTried, guiRaised, directTried, x_cancelled,
                             x_i, x_passwords, x_result>>
         ELSE xGoto("direct_report100")

\* lines 154-157
x_direct_report100 ==
    /\ x_pc = "direct_report100"
    /\ IF xRaises THEN xGoto("direct_except") ELSE xLeave("direct")

\* lines 159-164: the handler reports, then raises RuntimeError
x_direct_except ==
    /\ x_pc = "direct_except"
    /\ IF xRaises THEN xLeave("Exception") ELSE xLeave("RuntimeError")

NextExtract ==
    \/ xCancel
    \/ x_start \/ x_gui_report0 \/ x_gui \/ x_gui_report100 \/ x_gui_except
    \/ x_direct_report0 \/ x_direct \/ x_row \/ x_direct_report95
    \/ x_direct_report100 \/ x_direct_except

SpecExtract == InitExtract /\ [][NextExtract]_vars

Decryptable == SelectSeq(logins, LAMBDA row : row.kind = "good")

\* C19: direct access skips a row whose decryption fails and goes on: what it
\* returns is exactly the rows with a non-empty password_value that decrypt,
\* in the order of the query.
C19_CorruptRowSkipped ==
    (x_pc = "done" /\ x_result = "direct") =>
        x_passwords = [i \in 1..Len(Decryptable) |-> Decryptable[i].id]

\* three rows, the one in the middle does not decrypt, the other two are returned
C19_Witness ==
    /\ x_pc = "done"
    /\ x_result = "direct"
    /\ Len(logins) = 3
    /\ logins[1].kind = "good"
    /\ logins[2].kind = "corrupt"
    /\ logins[3].kind = "good"
    /\ x_passwords = <<1, 3>>

\* ---- import_history with the destination browser running ----

\* what import_history creates or writes: the temporary database, the backup
\* of places.sqlite, rows of places.sqlite
Untouched ==
    /\ tempDb = NoTemp
    /\ temp_db_path = "none"
    /\ backup = NoFile
    /\ txn = NoFile
    /\ dest = pre

\* C18: when Zen Browser is running and import_history is called with a
\* non-empty list, the import fails (it returns False, or the exception of its
\* progress callback leaves it), and at no point is there a backup, a
\* temporary database or a write to places.sqlite.
C18_RunningBrowserRefused ==
    (zenRunning /\ Len(history_items) > 0) =>
        /\ Untouched
        /\ pc = "done" => result \in {"false", "raised"}
        /\ (pc = "done" /\ ~Raises) => result = "false"

\* a non-empty list against an existing places.sqlite of a running browser:
\* import_history returned False
C18_Witness ==
    /\ zenRunning
    /\ Len(history_items) > 0
    /\ pre.exists
    /\ pc = "done"
    /\ result = "false"

\* ---- ChromeHistoryItem.datetime ----

\* A time is written in base 1000000: [high, low, micro] is
\* high * 1000000 + low seconds and micro microseconds, with low and micro in
\* 0..999999; a visit_time of n microseconds has these three digits, and a
\* negative time has a negative high digit.
Million == 1000000

\* line 82: 11644473600 seconds
chrome_to_unix_epoch_diff == [high |-> 11644, low |-> 473600, micro |-> 0]

MaxSkew == 1

\* the timestamps converted: around the Unix epoch, the first and the last
\* second of a block, the default 0 of from_dict, a negative one, a recent one
TimeInputs ==
    [high : {-1, 0, 13440} \cup
            (chrome_to_unix_epoch_diff.high - MaxSkew)..(chrome_to_unix_epoch_diff.high + MaxSkew),
     low : {0, Million - 1} \cup
           (chrome_to_unix_epoch_diff.low - MaxSkew)..(chrome_to_unix_epoch_diff.low + MaxSkew),
     micro : {Million - 1} \cup 0..MaxSkew]

\* line 83: visit_time / 1000000 keeps the digits, the last one as the
\* fraction of a second; the difference is taken digit by digit with a borrow
subtract(a, b) ==
    LET borrow == IF a.low < b.low THEN 1 ELSE 0
    IN  [high |-> a.high - b.high - borrow,
         low |-> (a.low - b.low) % Million,
         micro |-> a.micro]

\* the sum of two times whose second one has no microseconds
add(a, b) ==
    [high |-> a.high + b.high + ((a.low + b.low) \div Million),
     low |-> (a.low + b.low) % Million,
     micro |-> a.micro]

\* a negative result is kept
clamp_none(u) == u

\* lines 86-87
clamp(u) == IF u.high < 0 THEN NoTime ELSE u

timeInputs == <<visit_time, mergeVars, pwVars, syncVars, extractVars, laterVars>>

InitTime ==
    /\ IdleLater
    /\ IdleMerge
    /\ IdlePasswords
    /\ IdleSync
    /\ IdleExtract
    /\ visit_time \in TimeInputs
    /\ unix_timestamp = "none"
    /\ dt_pc = "subtract"

\* lines 82-83
dt_subtract ==
    /\ dt_pc = "subtract"
    /\ unix_timestamp' = subtract(visit_time, chrome_to_unix_epoch_diff)
    /\ dt_pc' = "clamp"
    /\ UNCHANGED timeInputs

\* lines 85-87
dt_clamp ==
    /\ dt_pc = "clamp"
    /\ unix_timestamp' = clamp(unix_timestamp)
    /\ dt_pc' = "return"
    /\ UNCHANGED timeInputs

\* line 89: the datetime of unix_timestamp is returned
dt_return ==
    /\ dt_pc = "return"
    /\ dt_pc' = "returned"
    /\ UNCHANGED <<timeInputs, unix_timestamp>>

NextTime == dt_subtract \/ dt_clamp \/ dt_return

SpecTime == InitTime /\ [][NextTime]_vars

\* visit_time < 11644473600 * 1000000
BeforeUnixEpoch(t) ==
    \/ t.high < chrome_to_unix_epoch_diff.high
    \/ /\ t.high = chrome_to_unix_epoch_diff.high
       /\ t.low < chrome_to_unix_epoch_diff.low

\* C20: a source timestamp below 11644473600 * 1000000 microseconds is
\* converted to the Unix time 0; every other source timestamp is converted to
\* the time that is 11644473600 seconds before it, which is not negative.
C20_ClampedAtEpoch ==
    dt_pc = "returned" =>
        IF BeforeUnixEpoch(visit_time)
          THEN unix_timestamp = NoTime
          ELSE /\ unix_timestamp.high >= 0
               /\ add(unix_timestamp, chrome_to_unix_epoch_diff) = visit_time

\* the last microsecond before 1970 was converted to 0
C20_Witness ==
    /\ dt_pc = "returned"
    /\ visit_time = [high |-> 11644, low |-> 473599, micro |-> 999999]
    /\ unix_timestamp = NoTime

\* ---- BookmarkExtractor._parse_bookmarks_data ----

MaxEntries == 3

Titles == {"a", "b"}

\* the entries under one root of the Bookmarks file: entry 1 is the root, the
\* children of an entry are the later entries that name it as parent, in order
BookmarkTrees ==
    UNION {{[i \in 1..n |-> IF i = 1
                              THEN [parent |-> 0, type |-> "root", name |-> "bar"]
                              ELSE [parent |-> p[i], type |-> t[i], name |-> m[i]]] :
              p \in {q \in [1..n -> 0..n] : \A i \in 2..n : q[i] \in 1..(i - 1)},
              t \in [1..n -> {"folder", "url", "other"}],
              m \in [1..n -> Titles]} :
           n \in 1..(MaxEntries + 1)}

RECURSIVE ChildrenFrom(_, _)
\* node['children'] of entry i, from entry j on
ChildrenFrom(i, j) ==
    IF j > Len(b_tree) THEN <<>>
    ELSE IF b_tree[j].parent = i THEN <<j>> \o ChildrenFrom(i, j + 1)
    ELSE ChildrenFrom(i, j + 1)

children(i) == ChildrenFrom(i, 1)

\* the list is handed on as it is
list_copy_shared(heap, ref) == [heap |-> heap, ref |-> ref]

\* lines 215 and 232, folder_path.copy(): a new list with the same elements
list_copy(heap, ref) == [heap |-> Append(heap, heap[ref]), ref |-> Len(heap) + 1]

\* line 222, folder_path + [folder.title]: a new list
list_plus(heap, ref, title) ==
    [heap |-> Append(heap, Append(heap[ref], title)), ref |-> Len(heap) + 1]

InitBookmarks ==
    /\ bmIdleOthers
    /\ b_tree \in BookmarkTrees
    /\ b_heap = <<>>
    /\ b_stack = <<>>
    /\ b_path = [i \in 1..Len(b_tree) |-> 0]
    /\ b_extended = 0
    /\ b_pc = "parse"

\* lines 179-187: the ChromeBookmark of the root gets a new empty list
\* (`folder_path or []', line 41), and the first call gets the list [title]
b_parse ==
    /\ b_pc = "parse"
    /\ b_heap' = <<<<>>, <<b_tree[1].name>>>>
    /\ b_path' = [b_path EXCEPT ![1] = 1]
    /\ b_stack' = <<[node |-> 1, folder_path |-> 2, todo |-> children(1)]>>
    /\ b_pc' = "walk"
    /\ UNCHANGED <<bmOthers, b_tree, b_extended>>

\* lines 207-235: the next child of the call on top
b_child ==
    /\ b_pc = "walk"
    /\ b_stack # <<>>
    /\ LET top == b_stack[Len(b_stack)]
           rest == [b_stack EXCEPT ![Len(b_stack)].todo = Tail(top.todo)]
       IN  /\ top.todo # <<>>
           /\ LET c == Head(top.todo)
                  own == list_copy(b_heap, top.folder_path)
                  new_path == list_plus(own.heap, top.folder_path, b_tree[c].name)
              IN  CASE b_tree[c].type = "folder" ->
                         /\ b_path' = [b_path EXCEPT ![c] = own.ref]
                         /\ b_heap' = new_path.heap
                         /\ b_stack' = Append(rest, [node |-> c, folder_path |-> new_path.ref,
                                                     todo |-> children(c)])
                    [] b_tree[c].type = "url" ->
                         /\ b_path' = [b_path EXCEPT ![c] = own.ref]
                         /\ b_heap' = own.heap
                         /\ b_stack' = rest
                    [] OTHER ->
                         /\ b_stack' = rest
                         /\ UNCHANGED <<b_path, b_heap>>
    /\ UNCHANGED <<bmOthers, b_tree, b_extended, b_pc>>

\* the loop of line 207 is over: the call returns
b_return ==
    /\ b_pc = "walk"
    /\ b_stack # <<>>
    /\ b_stack[Len(b_stack)].todo = <<>>
    /\ b_stack' = SubSeq(b_stack, 1, Len(b_stack) - 1)
    /\ b_pc' = IF Len(b_stack) = 1 THEN "parsed" ELSE "walk"
    /\ UNCHANGED <<bmOthers, b_tree, b_heap, b_path, b_extended>>

\* a user of the result appends to the folder_path of one node
b_extend ==
    /\ b_pc = "parsed"
    /\ \E i \in 1..Len(b_tree) :
         /\ b_path[i] # 0
         /\ b_heap' = [b_heap EXCEPT ![b_path[i]] = Append(@, "more")]
         /\ b_extended' = i
    /\ b_pc' = "extended"
    /\ UNCHANGED <<bmOthers, b_tree, b_stack, b_path>>

NextBookmarks == b_parse \/ b_child \/ b_return \/ b_extend

SpecBookmarks == InitBookmarks /\ [][NextBookmarks]_vars

RECURSIVE AncestorTitles(_)
\* the titles of the folders above entry i, from the root down to its parent
AncestorTitles(i) ==
    IF b_tree[i].parent = 0 THEN <<>>
    ELSE Append(AncestorTitles(b_tree[i].parent), b_tree[b_tree[i].parent].name)

RECURSIVE InFolders(_)
\* entry i is a folder or a url, and so is everything above it a folder
InFolders(i) ==
    \/ i = 1
    \/ /\ b_tree[i].type \in {"folder", "url"}
       /\ b_tree[b_tree[i].parent].type \in {"root", "folder"}
       /\ InFolders(b_tree[i].parent)

\* C21: the folder_path of every node made from the tree is the list of the
\* titles of the folders above it, from the root down to its parent; every
\* folder and url entry inside folders gets a node; and appending to the
\* folder_path of one node leaves that of every other node as it was.
C21_FolderPath ==
    /\ \A i \in 1..Len(b_path) :
         (b_path[i] # 0 /\ i # b_extended) => b_heap[b_path[i]] = AncestorTitles(i)
    /\ b_pc \in {"parsed", "extended"} =>
         \A i \in 1..Len(b_tree) : b_path[i] # 0 <=> InFolders(i)

\* a folder in a folder, with a url next to it and a url inside it; the path
\* of the url next to it was appended to
C21_Witness ==
    /\ b_pc = "extended"
    /\ Len(b_tree) = 4
    /\ b_tree[2].type = "folder" /\ b_tree[2].parent = 1
    /\ b_tree[3].type = "url" /\ b_tree[3].parent = 2
    /\ b_tree[4].type = "url" /\ b_tree[4].parent = 1
    /\ b_extended = 4
    /\ b_heap[b_path[3]] = <<"bar", b_tree[2].name>>
    /\ b_heap[b_path[2]] = <<"bar">>

\* ---- secure_delete_file ----

MaxSize == 2

\* line 41: passes: int = 3
DefaultPasses == 3

\* lines 61-75: what the three writes of one turn of the loop put in the file
Fills == <<"zero", "one", "random">>

sdInputs == <<sd_passes, sd_present, sd_length, sdOthers>>

InitSecureDelete ==
    /\ sdIdleOthers
    /\ sd_passes \in 1..DefaultPasses
    /\ sd_present \in BOOLEAN
    /\ sd_exists = sd_present
    /\ sd_length \in 0..MaxSize
    /\ file_size = 0
    /\ sd_content = IF sd_present THEN [fill |-> "plain", len |-> sd_length]
                    ELSE [fill |-> "none", len |-> 0]
    /\ sd_written = <<>>
    /\ sd_round = 0
    /\ sd_pc = "check"
    /\ sd_result = "none"
    /\ sd_failed_at = "none"
    /\ sd_fallback = "none"

sdReturn(r) ==
    /\ sd_pc' = "done"
    /\ sd_result' = r

\* an exception inside the try block of line 55 reaches the handler of line 82
sdRaise(at) ==
    /\ sd_failed_at' = at
    /\ sd_pc' = "except"

\* lines 51-53
sd_check ==
    /\ sd_pc = "check"
    /\ IF sd_exists
         THEN /\ sd_pc' = "getsize"
              /\ UNCHANGED sd_result
         ELSE sdReturn("false")
    /\ UNCHANGED <<sdInputs, sd_exists, file_size, sd_content, sd_written, sd_round,
                   sd_failed_at, sd_fallback>>

\* line 57
sd_getsize ==
    /\ sd_pc = "getsize"
    /\ \/ /\ file_size' = sd_content.len
          /\ sd_round' = 1
          /\ sd_pc' = "write1"
          /\ UNCHANGED sd_failed_at
       \/ /\ sdRaise("getsize")
          /\ UNCHANGED <<file_size, sd_round>>
    /\ UNCHANGED <<sdInputs, sd_exists, sd_content, sd_written, sd_result, sd_fallback>>

\* line 60: for _ in range(passes)
rounds(passes) == passes

\* lines 61-75: the k-th write of a turn: open(file_path, 'wb') truncates the
\* file, then file_size bytes are written, flushed and fsynced; any of these
\* may raise, leaving the file truncated or partly written
sd_write(k) ==
    /\ sd_pc = <<"write1", "write2", "write3">>[k]
    /\ \/ /\ sd_content' = [fill |-> Fills[k], len |-> file_size]
          /\ sd_written' = Append(sd_written, [fill |-> Fills[k], len |-> file_size,
                                                synced |-> TRUE])
          /\ IF k < 3
               THEN /\ sd_pc' = <<"write2", "write3">>[k]
                    /\ UNCHANGED sd_round
               ELSE /\ sd_round' = sd_round + 1
                    /\ sd_pc' = IF sd_round < rounds(sd_passes) THEN "write1" ELSE "remove"
          /\ UNCHANGED sd_failed_at
       \/ /\ sdRaise("overwrite")
          /\ \/ UNCHANGED sd_content
             \/ \E n \in 0..file_size : sd_content' = [fill |-> Fills[k], len |-> n]
          /\ UNCHANGED <<sd_written, sd_round>>
    /\ UNCHANGED <<sdInputs, sd_exists, file_size, sd_result, sd_fallback>>

\* lines 77-80
sd_remove ==
    /\ sd_pc = "remove"
    /\ \/ /\ sd_exists' = FALSE
          /\ sdReturn("true")
          /\ UNCHANGED sd_failed_at
       \/ /\ sdRaise("remove")
          /\ UNCHANGED <<sd_exists, sd_result>>
    /\ UNCHANGED <<sdInputs, file_size, sd_content, sd_written, sd_round, sd_fallback>>

\* the handler gives up
on_failure_give_up == "give_up"

\* lines 85-88: the standard deletion is attempted
on_failure == "unlink"

\* lines 82-92
sd_except ==
    /\ sd_pc = "except"
    /\ IF on_failure = "unlink"
         THEN \/ /\ sd_exists' = FALSE
                 /\ sd_fallback' = "ok"
                 /\ sdReturn("true")
              \/ /\ sd_fallback' = "raised"
                 /\ sdReturn("false")
                 /\ UNCHANGED sd_exists
         ELSE /\ sdReturn("false")
              /\ UNCHANGED <<sd_exists, sd_fallback>>
    /\ UNCHANGED <<sdInputs, file_size, sd_content, sd_written, sd_round, sd_failed_at>>

NextSecureDelete ==
    \/ sd_check \/ sd_getsize
    \/ \E k \in 1..3 : sd_write(k)
    \/ sd_remove \/ sd_except

SpecSecureDelete == InitSecureDelete /\ [][NextSecureDelete]_vars

\* C22 as stated: when an overwrite pass fails the plain unlink is attempted
\* and its success is reported; True is returned only when the path is gone;
\* False is returned only when the file was absent or both an overwrite pass
\* and the plain unlink failed.
C22_FalseOnlyAfterOverwriteFailed ==
    sd_pc = "done" =>
        /\ (sd_present /\ sd_failed_at = "overwrite") =>
               /\ sd_fallback # "none"
               /\ sd_fallback = "ok" => sd_result = "true"
        /\ sd_result = "true" => ~sd_exists
        /\ sd_result = "false" =>
               \/ ~sd_present
               \/ sd_failed_at = "overwrite" /\ sd_fallback = "raised"

\* C22: when the size query, an overwrite pass or the unlink after the passes
\* fails, the plain unlink is attempted and its success is reported; True is
\* returned only when the path is gone; False is returned only when the file
\* was absent or both the secure deletion and the plain unlink failed.
C22_FalseOnlyAfterBothFailed ==
    sd_pc = "done" =>
        /\ (sd_present /\ sd_failed_at # "none") =>
               /\ sd_fallback # "none"
               /\ sd_fallback = "ok" => sd_result = "true"
        /\ sd_result = "true" => ~sd_exists
        /\ sd_result = "false" =>
               \/ ~sd_present
               \/ sd_failed_at # "none" /\ sd_fallback = "raised"

\* an overwrite pass failed, the plain unlink removed the file, True was returned
C22_Witness ==
    /\ sd_pc = "done"
    /\ sd_present
    /\ sd_failed_at = "overwrite"
    /\ sd_fallback = "ok"
    /\ sd_result = "true"
    /\ ~sd_exists

\* C28: when secure_delete_file removes the file after its overwrites, the
\* file has been overwritten over its full length exactly three times: with
\* zeros, with ones, with random bytes, each write flushed and fsynced.
C28_ThreePasses ==
    (sd_passes = DefaultPasses /\ sd_failed_at = "none" /\ ~sd_exists /\ sd_present) =>
        sd_written = [k \in 1..3 |-> [fill |-> Fills[k], len |-> sd_length, synced |-> TRUE]]

\* ---- ChromeProcessMonitor ----

Events == {"on_chrome_launch", "on_chrome_close"}

RECURSIVE Elems(_)
\* the elements of a list
Elems(list) == IF list = <<>> THEN {} ELSE {Head(list)} \cup Elems(Tail(list))

\* process_monitor.py 24-39
NewMonitor ==
    [running |-> FALSE, chrome_detected |-> FALSE, _callbacks |-> [e \in Events |-> <<>>]]

\* process_monitor.py 41-61, ChromeProcessMonitor.add_callback on monitor m
monitor_add_callback(m, event_type, callback) ==
    IF callback \in Elems(m._callbacks[event_type]) THEN m
    ELSE [m EXCEPT !._callbacks[event_type] = Append(@, callback)]

\* process_monitor.py 63-83, ChromeProcessMonitor.remove_callback on monitor m
monitor_remove_callback(m, event_type, callback) ==
    [m EXCEPT !._callbacks[event_type] = SelectSeq(@, LAMBDA c : c # callback)]

\* start that takes Chrome as not running whatever is_chrome_running() gives
monitor_start_undetected(m, chrome_running) ==
    IF m.running THEN m
    ELSE [m EXCEPT !.running = TRUE, !.chrome_detected = FALSE]

\* process_monitor.py 122-135, ChromeProcessMonitor.start
monitor_start(m, chrome_running) ==
    IF m.running THEN m
    ELSE [m EXCEPT !.running = TRUE, !.chrome_detected = chrome_running]

\* process_monitor.py 137-142, ChromeProcessMonitor.stop
monitor_stop(m) == [m EXCEPT !.running = FALSE]

\* poll_once that reports a change without recording it
poll_once_forgetful(m, chrome_running) ==
    IF ~m.running THEN [mon |-> m, event |-> "none", ret |-> FALSE]
    ELSE IF chrome_running /\ ~m.chrome_detected
      THEN [mon |-> m, event |-> "on_chrome_launch", ret |-> TRUE]
    ELSE IF ~chrome_running /\ m.chrome_detected
      THEN [mon |-> m, event |-> "on_chrome_close", ret |-> TRUE]
    ELSE [mon |-> m, event |-> "none", ret |-> FALSE]

\* process_monitor.py 144-170, ChromeProcessMonitor.poll_once on monitor m
\* when is_chrome_running() gives chrome_running: the monitor afterwards, the
\* event whose callbacks are triggered, and the value returned
poll_once(m, chrome_running) ==
    IF ~m.running THEN [mon |-> m, event |-> "none", ret |-> FALSE]
    ELSE IF chrome_running /\ ~m.chrome_detected
      THEN [mon |-> [m EXCEPT !.chrome_detected = TRUE],
            event |-> "on_chrome_launch", ret |-> TRUE]
    ELSE IF ~chrome_running /\ m.chrome_detected
      THEN [mon |-> [m EXCEPT !.chrome_detected = FALSE],
            event |-> "on_chrome_close", ret |-> TRUE]
    ELSE [mon |-> m, event |-> "none", ret |-> FALSE]

\* ---- ServiceManager ----

MaxMonitors == 2

\* the callbacks handed to add_callback and remove_callback
ServiceCallbacks == {"f"}

svInputs == <<chrome_path, hooked, svOthers>>

InitService ==
    /\ svIdleOthers
    /\ chrome_path \in BOOLEAN
    /\ hooked \in Events
    /\ chrome \in BOOLEAN
    /\ sv_status = "stopped"
    /\ sv_error_message = FALSE
    /\ process_monitor = 0
    /\ monitors = <<>>
    /\ sv_callbacks = [e \in Events |-> <<>>]
    /\ sv_threads = <<>>
    /\ api_pc = "idle"
    /\ api_restart = FALSE
    /\ sv_ret = "none"
    /\ wanted = [e \in Events |-> {}]

\* Chrome is launched or closed
chrome_toggle ==
    /\ api_pc # "off"
    /\ chrome' = ~chrome
    /\ UNCHANGED <<svInputs, sv_status, sv_error_message, process_monitor, monitors,
                   sv_callbacks, sv_threads, api_pc, api_restart, sv_ret, wanted>>

\* service_manager.py 59-103, start_service, called directly or by restart_service
start_service ==
    /\ api_pc \in {"idle", "starting"}
    /\ api_pc' = "idle"
    /\ api_restart' = FALSE
    /\ IF sv_status = "running"
         THEN /\ sv_ret' = "true"
              /\ UNCHANGED <<sv_status, sv_error_message, process_monitor, monitors,
                             sv_threads>>
         ELSE IF ~chrome_path
           THEN /\ sv_status' = "error"
                /\ sv_error_message' = TRUE
                /\ sv_ret' = "false"
                /\ UNCHANGED <<process_monitor, monitors, sv_threads>>
           ELSE /\ Len(monitors) < MaxMonitors
                /\ monitors' = Append(monitors, monitor_start(NewMonitor, chrome))
                /\ process_monitor' = Len(monitors) + 1
                /\ sv_threads' = Append(sv_threads, [pc |-> "func", mon |-> 0])
                /\ sv_status' = "running"
                /\ sv_error_message' = FALSE
                /\ sv_ret' = "true"
    /\ UNCHANGED <<svInputs, chrome, sv_callbacks, wanted>>

\* service_manager.py 105-120: stop_service up to the call of
\* process_monitor.stop(), called directly (restart = FALSE) or by
\* restart_service, which calls it only when the service is running
stop_service_begin(restart) ==
    /\ api_pc = "idle"
    /\ IF sv_status # "running"
         THEN /\ IF restart
                   THEN /\ api_pc' = "starting"
                        /\ UNCHANGED sv_ret
                   ELSE /\ sv_ret' = "true"
                        /\ UNCHANGED api_pc
              /\ UNCHANGED <<monitors, api_restart>>
         ELSE /\ monitors' = [monitors EXCEPT ![process_monitor] = monitor_stop(@)]
              /\ api_pc' = "stopping"
              /\ api_restart' = restart
              /\ UNCHANGED sv_ret
    /\ UNCHANGED <<svInputs, chrome, sv_status, sv_error_message, process_monitor,
                   sv_callbacks, sv_threads, wanted>>

\* service_manager.py 122-127: the rest of stop_service
stop_service_end ==
    /\ api_pc = "stopping"
    /\ sv_status' = "stopped"
    /\ sv_error_message' = FALSE
    /\ sv_ret' = "true"
    /\ api_pc' = IF api_restart THEN "starting" ELSE "idle"
    /\ UNCHANGED <<svInputs, chrome, process_monitor, monitors, sv_callbacks, sv_threads,
                   api_restart, wanted>>

\* service_manager.py 264-286, ServiceManager.add_callback
add_callback ==
    /\ api_pc = "idle"
    /\ \E e \in {hooked}, c \in ServiceCallbacks :
         /\ IF process_monitor # 0
              THEN /\ monitors' = [monitors EXCEPT ![process_monitor] =
                                       monitor_add_callback(@, e, c)]
                   /\ UNCHANGED sv_callbacks
              ELSE /\ sv_callbacks' = IF c \in Elems(sv_callbacks[e]) THEN sv_callbacks
                                      ELSE [sv_callbacks EXCEPT ![e] = Append(@, c)]
                   /\ UNCHANGED monitors
         /\ wanted' = [wanted EXCEPT ![e] = @ \cup {c}]
    /\ UNCHANGED <<svInputs, chrome, sv_status, sv_error_message, process_monitor,
                   sv_threads, api_pc, api_restart, sv_ret>>

\* service_manager.py 288-307, ServiceManager.remove_callback
remove_callback ==
    /\ api_pc = "idle"
    /\ \E e \in {hooked}, c \in ServiceCallbacks :
         /\ IF process_monitor # 0
              THEN /\ monitors' = [monitors EXCEPT ![process_monitor] =
                                       monitor_remove_callback(@, e, c)]
                   /\ UNCHANGED sv_callbacks
              ELSE /\ sv_callbacks' = [sv_callbacks EXCEPT ![e] =
                                           SelectSeq(@, LAMBDA x : x # c)]
                   /\ UNCHANGED monitors
         /\ wanted' = [wanted EXCEPT ![e] = @ \ {c}]
    /\ UNCHANGED <<svInputs, chrome, sv_status, sv_error_message, process_monitor,
                   sv_threads, api_pc, api_restart, sv_ret>>

\* service_manager.py 150-231 and 320-324: the scheduler command succeeds, or
\* it fails and _set_error sets the error status
configure_auto_startup ==
    /\ api_pc = "idle"
    /\ \E done \in BOOLEAN :
         IF done
           THEN /\ sv_ret' = "true"
                /\ UNCHANGED <<sv_status, sv_error_message>>
           ELSE /\ sv_status' = "error"
                /\ sv_error_message' = TRUE
                /\ sv_ret' = "false"
    /\ UNCHANGED <<svInputs, chrome, process_monitor, monitors, sv_callbacks, sv_threads,
                   api_pc, api_restart, wanted>>

RECURSIVE add_all(_, _, _)
\* monitor m after add_callback(e, c) for each c of the list
add_all(m, e, list) ==
    IF list = <<>> THEN m
    ELSE add_all(monitor_add_callback(m, e, Head(list)), e, Tail(list))

\* service_manager.py 309-315: the thread registers the stored callbacks with
\* the monitor that self.process_monitor names at that moment
thread_register(i) ==
    /\ sv_threads[i].pc = "func"
    /\ monitors' = [monitors EXCEPT ![process_monitor] =
                        add_all(add_all(@, "on_chrome_launch", sv_callbacks["on_chrome_launch"]),
                                "on_chrome_close", sv_callbacks["on_chrome_close"])]
    /\ sv_threads' = [sv_threads EXCEPT ![i].pc = "run"]
    /\ UNCHANGED <<svInputs, chrome, sv_status, sv_error_message, process_monitor,
                   sv_callbacks, api_pc, api_restart, sv_ret, wanted>>

\* service_manager.py 318 and process_monitor.py 176: run_polling_loop of the
\* monitor that self.process_monitor names at that moment begins with start()
thread_run(i) ==
    /\ sv_threads[i].pc = "run"
    /\ monitors' = [monitors EXCEPT ![process_monitor] = monitor_start(@, chrome)]
    /\ sv_threads' = [sv_threads EXCEPT ![i] = [pc |-> "loop", mon |-> process_monitor]]
    /\ UNCHANGED <<svInputs, chrome, sv_status, sv_error_message, process_monitor,
                   sv_callbacks, api_pc, api_restart, sv_ret, wanted>>

\* process_monitor.py 178-187: one turn of the loop, or its end and stop()
thread_poll(i) ==
    /\ sv_threads[i].pc = "loop"
    /\ LET k == sv_threads[i].mon
       IN  IF monitors[k].running
             THEN /\ monitors' = [monitors EXCEPT ![k] = poll_once(@, chrome).mon]
                  /\ UNCHANGED sv_threads
             ELSE /\ monitors' = [monitors EXCEPT ![k] = monitor_stop(@)]
                  /\ sv_threads' = [sv_threads EXCEPT ![i].pc = "exited"]
    /\ UNCHANGED <<svInputs, chrome, sv_status, sv_error_message, process_monitor,
                   sv_callbacks, api_pc, api_restart, sv_ret, wanted>>

NextService ==
    \/ chrome_toggle
    \/ start_service
    \/ \E restart \in BOOLEAN : stop_service_begin(restart)
    \/ stop_service_end
    \/ configure_auto_startup
    \/ add_callback
    \/ remove_callback
    \/ \E i \in 1..Len(sv_threads) : thread_register(i) \/ thread_run(i) \/ thread_poll(i)

SpecService == InitService /\ [][NextService]_vars

\* C23: start_service from 'stopped' with a Chrome path returns True, creates
\* one monitor and one thread, and leaves the monitor running, the status
\* 'running' and no error message; stop_service from 'running' returns True
\* and leaves the monitor stopped and the status 'stopped'; start_service
\* while 'running' and stop_service while not 'running' return True and
\* create and stop nothing.
C23_Lifecycle ==
    [][/\ (start_service /\ sv_status = "stopped" /\ chrome_path) =>
              /\ sv_ret' = "true"
              /\ Len(monitors') = Len(monitors) + 1
              /\ Len(sv_threads') = Len(sv_threads) + 1
              /\ monitors'[process_monitor'].running
              /\ sv_status' = "running"
              /\ ~sv_error_message'
       /\ stop_service_end =>
              /\ sv_ret' = "true"
              /\ ~monitors'[process_monitor'].running
              /\ sv_status' = "stopped"
       /\ (start_service /\ sv_status = "running") =>
              /\ sv_ret' = "true"
              /\ UNCHANGED <<monitors, sv_threads, process_monitor, sv_status>>
       /\ (stop_service_begin(FALSE) /\ sv_status # "running") =>
              /\ sv_ret' = "true"
              /\ UNCHANGED <<monitors, sv_threads, process_monitor, sv_status>>
      ]_vars

\* the event that a turn of the polling loop reports on monitor k, "none" if
\* the step is no such turn
Reported(k) ==
    IF /\ k <= Len(monitors')
       /\ monitors[k].running /\ monitors'[k].running
       /\ monitors[k].chrome_detected # monitors'[k].chrome_detected
      THEN IF monitors'[k].chrome_detected THEN "on_chrome_launch" ELSE "on_chrome_close"
      ELSE "none"

\* C24: whenever the monitor in use reports an event while the service is
\* running, every callback added for the event and not removed since is
\* invoked, whether it was added before or after a start or a restart; and no
\* monitor invokes a callback that was removed and not added again.
C24_CallbacksFollowService ==
    [][\A k \in 1..Len(monitors) :
         LET e == Reported(k)
         IN  e # "none" =>
               /\ (sv_status = "running" /\ k = process_monitor) =>
                      wanted[e] \subseteq Elems(monitors[k]._callbacks[e])
               /\ Elems(monitors[k]._callbacks[e]) \subseteq wanted[e]
      ]_vars

\* ---- one call of ChromeProcessMonitor.poll_once ----

MonitorCallbacks == {"f", "g"}

\* the lists add_callback can build: no callback twice
CallbackLists ==
    {<<>>} \cup {<<c>> : c \in MonitorCallbacks}
           \cup {<<c, e>> : <<c, e>> \in {p \in MonitorCallbacks \X MonitorCallbacks : p[1] # p[2]}}

pmInputs == <<pm_before, pm_seen, pmOthers>>

InitMonitor ==
    /\ pmIdleOthers
    /\ pm_monitor \in [running : BOOLEAN, chrome_detected : BOOLEAN,
                       _callbacks : [Events -> CallbackLists]]
    /\ pm_before = pm_monitor
    /\ pm_seen \in BOOLEAN
    /\ pm_event = "none"
    /\ pm_i = 0
    /\ pm_calls = <<>>
    /\ pm_ret = "none"
    /\ pm_pc = "poll"

\* lines 151-170 up to the call of _trigger_callbacks or the return
pm_poll ==
    /\ pm_pc = "poll"
    /\ LET p == poll_once(pm_monitor, pm_seen)
       IN  /\ pm_monitor' = p.mon
           /\ pm_event' = p.event
           /\ IF p.event = "none"
                THEN /\ pm_pc' = "done"
                     /\ pm_ret' = IF p.ret THEN "true" ELSE "false"
                     /\ UNCHANGED pm_i
                ELSE /\ pm_pc' = "trigger"
                     /\ pm_i' = 1
                     /\ UNCHANGED pm_ret
    /\ UNCHANGED <<pmInputs, pm_calls>>

\* lines 116-120: the next callback is called; whether it returns or raises,
\* the loop goes on
pm_trigger ==
    /\ pm_pc = "trigger"
    /\ pm_i <= Len(pm_monitor._callbacks[pm_event])
    /\ pm_calls' = Append(pm_calls, pm_monitor._callbacks[pm_event][pm_i])
    /\ \E raised \in BOOLEAN : pm_i' = pm_i + 1
    /\ UNCHANGED <<pmInputs, pm_monitor, pm_event, pm_ret, pm_pc>>

\* lines 161 and 168: return True after the callbacks
pm_return ==
    /\ pm_pc = "trigger"
    /\ pm_i > Len(pm_monitor._callbacks[pm_event])
    /\ pm_ret' = "true"
    /\ pm_pc' = "done"
    /\ UNCHANGED <<pmInputs, pm_monitor, pm_event, pm_i, pm_calls>>

NextMonitor == pm_poll \/ pm_trigger \/ pm_return

SpecMonitor == InitMonitor /\ [][NextMonitor]_vars

\* C25: poll_once on a running monitor: when Chrome is seen running and was
\* not recorded as detected, every on_chrome_launch callback has been invoked
\* once, Chrome is recorded as detected and True is returned; when Chrome is
\* seen not running and was recorded as detected, the same holds for
\* on_chrome_close and Chrome is recorded as not detected; when what is seen
\* equals what was recorded, no callback has been invoked, nothing has
\* changed and False is returned.
C25_PollOnce ==
    (pm_pc = "done" /\ pm_before.running) =>
        IF pm_seen # pm_before.chrome_detected
          THEN /\ pm_calls = pm_before._callbacks[IF pm_seen THEN "on_chrome_launch"
                                                  ELSE "on_chrome_close"]
               /\ pm_monitor = [pm_before EXCEPT !.chrome_detected = pm_seen]
               /\ pm_ret = "true"
          ELSE /\ pm_calls = <<>>
               /\ pm_monitor = pm_before
               /\ pm_ret = "false"

\* Chrome was launched: both on_chrome_launch callbacks were invoked, once
\* each, and the on_chrome_close callback was not
C25_Witness ==
    /\ pm_pc = "done"
    /\ pm_before.running
    /\ ~pm_before.chrome_detected
    /\ pm_seen
    /\ pm_before._callbacks["on_chrome_launch"] = <<"f", "g">>
    /\ pm_before._callbacks["on_chrome_close"] = <<"g">>
    /\ pm_calls = <<"f", "g">>
    /\ pm_monitor.chrome_detected
    /\ pm_ret = "true"

\* ---- ConfigManager.set and save ----

\* the keys of one section: one of the schema, which is required and has a
\* default (config_schema.py 13-144, config_defaults.py 46-112), and one the
\* schema does not know ("additionalProperties": False)
ConfigKeys == {"known", "unknown"}

\* the values of a key: two that its schema accepts and one that it rejects
ConfigValues == {"v1", "v2", "bad"}

DEFAULT_CONFIG == [key \in ConfigKeys |-> IF key = "known" THEN "v1" ELSE "absent"]

\* config_schema.py 146-161: the section validates against its schema, and
\* the configuration has no section the schema does not know (line 143,
\* "additionalProperties": False); other is "absent", "empty" or "key"
validate_config(config, other) ==
    /\ config["known"] \in {"v1", "v2"}
    /\ config["unknown"] = "absent"
    /\ other = "absent"

\* the configuration was read from a valid file (load, lines 79-83) or is
\* DEFAULT_CONFIG.copy() (lines 88, 95, 101, 155), a copy whose sections are
\* the dicts of DEFAULT_CONFIG themselves
InitConfig ==
    /\ cfgIdleOthers
    /\ cfg_shared \in BOOLEAN
    /\ cfg_default = DEFAULT_CONFIG
    /\ cfg_value \in IF cfg_shared THEN {cfg_default}
                     ELSE {c \in [ConfigKeys -> ConfigValues \cup {"absent"}] :
                             validate_config(c, "absent")}
    /\ cfg_other = "absent"
    /\ cfg_section = "none"
    /\ cfg_key = "none"
    /\ cfg_arg = "none"
    /\ cfg_prev = "none"
    /\ cfg_ret = "none"
    /\ cfg_op = "none"
    /\ cfg_io_error = FALSE
    /\ cfg_pc = "idle"

\* lines 191-196 for a section of the schema: the value is stored before it
\* is validated
cfg_assign ==
    /\ cfg_pc = "idle"
    /\ \E key \in ConfigKeys, value \in ConfigValues :
         /\ cfg_key' = key
         /\ cfg_arg' = value
         /\ cfg_prev' = cfg_value[key]
         /\ cfg_value' = [cfg_value EXCEPT ![key] = value]
         /\ cfg_default' = IF cfg_shared THEN [cfg_default EXCEPT ![key] = value]
                           ELSE cfg_default
    /\ cfg_section' = "known"
    /\ cfg_op' = "set"
    /\ cfg_ret' = "none"
    /\ cfg_pc' = "validate"
    /\ UNCHANGED <<cfgOthers, cfg_shared, cfg_other, cfg_io_error>>

\* lines 191-196 for a section the configuration may not have: line 193
\* creates it, line 196 stores the key in it
cfg_assign_other ==
    /\ cfg_pc = "idle"
    /\ \E key \in ConfigKeys, value \in ConfigValues :
         /\ cfg_key' = key
         /\ cfg_arg' = value
    /\ cfg_prev' = "absent"
    /\ cfg_other' = "key"
    /\ cfg_section' = "other"
    /\ cfg_op' = "set"
    /\ cfg_ret' = "none"
    /\ cfg_pc' = "validate"
    /\ UNCHANGED <<cfgOthers, cfg_shared, cfg_value, cfg_default, cfg_io_error>>

\* lines 203-206: the default of the key is stored, or the key deleted when
\* it has none
revert(config, default, key, prev) == [config EXCEPT ![key] = default[key]]

\* lines 198-209; line 206 deletes the key of a section that DEFAULT_CONFIG
\* does not have and leaves the section
cfg_validate ==
    /\ cfg_pc = "validate"
    /\ IF validate_config(cfg_value, cfg_other)
         THEN /\ cfg_ret' = "true"
              /\ UNCHANGED <<cfg_value, cfg_default, cfg_other>>
         ELSE /\ cfg_ret' = "false"
              /\ IF cfg_section = "known"
                   THEN /\ cfg_value' = revert(cfg_value, cfg_default, cfg_key, cfg_prev)
                        /\ cfg_default' = IF cfg_shared THEN cfg_value' ELSE cfg_default
                        /\ cfg_other' = cfg_other
                   ELSE /\ cfg_other' = "empty"
                        /\ UNCHANGED <<cfg_value, cfg_default>>
    /\ cfg_pc' = "idle"
    /\ UNCHANGED <<cfgOthers, cfg_shared, cfg_section, cfg_key, cfg_arg, cfg_prev, cfg_op,
                   cfg_io_error>>

\* config_manager.py 117-146: an invalid configuration is not written
\* (lines 125-128); the directory or the file may fail (lines 134, 144)
save ==
    /\ cfg_pc = "idle"
    /\ \E io_error \in BOOLEAN :
         /\ cfg_io_error' = (validate_config(cfg_value, cfg_other) /\ io_error)
         /\ cfg_ret' = IF validate_config(cfg_value, cfg_other) /\ ~io_error
                         THEN "true" ELSE "false"
    /\ cfg_op' = "save"
    /\ UNCHANGED <<cfgOthers, cfg_shared, cfg_default, cfg_value, cfg_other, cfg_section,
                   cfg_key, cfg_arg, cfg_prev, cfg_pc>>

NextConfig == cfg_assign \/ cfg_assign_other \/ cfg_validate \/ save

SpecConfig == InitConfig /\ [][NextConfig]_vars

\* the value stored under the key of the last set, "absent" if there is none
cfg_stored ==
    IF cfg_section = "other"
      THEN (IF cfg_other = "key" THEN cfg_arg ELSE "absent")
      ELSE cfg_value[cfg_key]

\* C26: a set that fails validation returns False and leaves the stored value
\* of the key as it was immediately before the call.
C26_RejectedSetKeepsValue ==
    (cfg_pc = "idle" /\ cfg_op = "set" /\ cfg_ret = "false") => cfg_stored = cfg_prev

\* C39: between calls the configuration validates against the schema, a set
\* of a value the schema accepts returns True and a save whose file can be
\* written returns True, whatever calls of set were rejected before.
C39_ConfigStaysValid ==
    cfg_pc = "idle" =>
      /\ validate_config(cfg_value, cfg_other)
      /\ (cfg_op = "set" /\ cfg_section = "known" /\ cfg_key = "known"
            /\ cfg_arg \in {"v1", "v2"}) => cfg_ret = "true"
      /\ (cfg_op = "save" /\ ~cfg_io_error) => cfg_ret = "true"

\* ---- AuthenticationManager ----

\* auth.py 39, seconds
TOKEN_VALIDITY_DURATION == 60 * 60

\* the clock of the model stops after this many validity durations
MaxClock == 2

\* the password argument: None or a string
AuthPasswords == {"None", "p", "q"}

\* __init__, lines 51-54; the credential store holds nothing, the hash of a
\* password, or something that is not "salt:hash"
InitAuth ==
    /\ auIdleOthers
    /\ au_require_auth \in BOOLEAN
    /\ current_token = "None"
    /\ token_expiry = 0
    /\ au_time = 1
    /\ stored_hash \in {"None", "p", "corrupt"}
    /\ au_ret = "none"
    /\ au_failed = FALSE

\* lines 128-142 at the time now
au_validate_token(now) ==
    \/ ~au_require_auth
    \/ ~(current_token = "None" \/ now > token_expiry)

\* lines 85-113: "true", "false" or "raise"; the derived key equals the
\* stored one when the password is the stored one
au_result(password, windows) ==
    IF password # "None"
      THEN IF stored_hash = "None" THEN "true"
           ELSE IF stored_hash = "corrupt" THEN "raise"
           ELSE IF password = stored_hash THEN "true" ELSE "false"
      ELSE IF windows THEN "true" ELSE "false"

\* lines 72-126; _store_password_hash may fail (206-256), which line 91
\* ignores
authenticate_user ==
    \E password \in AuthPasswords, windows \in BOOLEAN, stored \in BOOLEAN :
      IF ~au_require_auth
        THEN /\ au_ret' = "true"
             /\ au_failed' = FALSE
             /\ UNCHANGED <<auOthers, au_require_auth, current_token, token_expiry,
                            au_time, stored_hash>>
        ELSE /\ stored_hash' = IF password # "None" /\ stored_hash = "None" /\ stored
                                 THEN password ELSE stored_hash
             /\ IF au_result(password, windows) = "true"
                  THEN /\ current_token' = "token"
                       /\ token_expiry' = au_time + TOKEN_VALIDITY_DURATION
                       /\ au_ret' = "true"
                       /\ au_failed' = FALSE
                  ELSE /\ au_ret' = "false"
                       /\ au_failed' = TRUE
                       /\ UNCHANGED <<current_token, token_expiry>>
             /\ UNCHANGED <<auOthers, au_require_auth, au_time>>

\* lines 185-199
logout ==
    /\ current_token' = "None"
    /\ token_expiry' = 0
    /\ au_ret' = "true"
    /\ UNCHANGED <<auOthers, au_require_auth, au_time, stored_hash, au_failed>>

\* time passes
au_tick ==
    /\ au_time < MaxClock * TOKEN_VALIDITY_DURATION
    /\ au_time' = au_time + TOKEN_VALIDITY_DURATION \div 2
    /\ UNCHANGED <<auOthers, au_require_auth, current_token, token_expiry,
                   stored_hash, au_ret, au_failed>>

NextAuth == authenticate_user \/ logout \/ au_tick

SpecAuth == InitAuth /\ [][NextAuth]_vars

\* C27: with authentication required, from an authenticate_user that returned
\* False until the next one that succeeds, validate_token returns False,
\* whatever happened before the failed attempt.
C27_NoTokenAfterFailure ==
    (au_require_auth /\ au_failed) => ~au_validate_token(au_time)

\* ---- the decryption of one password_value ----

\* the longest password_value after its first three bytes
MaxBody == 14

\* the bytes a version prefix is made of
PrefixBytes == {"v", "1", "0"}

\* a password_value: up to three bytes of PrefixBytes, then the bytes 1, 2, ...
\* (all different, so that a slice shows where it was cut)
Ciphertexts ==
    {<<>>} \cup [1..1 -> PrefixBytes] \cup [1..2 -> PrefixBytes]
    \cup { p \o [i \in 1..n |-> i] : p \in [1..3 -> PrefixBytes], n \in 0..MaxBody }

\* bytes.startswith
startswith(bytes, prefix) ==
    /\ Len(bytes) >= Len(prefix)
    /\ SubSeq(bytes, 1, Len(prefix)) = prefix

\* bytes[from:to] of Python, from <= to
slice(bytes, from, to) ==
    SubSeq(bytes, from + 1, IF to < Len(bytes) THEN to ELSE Len(bytes))

dcInputs == <<encrypted_password, dcOthers>>

InitDecrypt ==
    /\ dcIdleOthers
    /\ encrypted_password \in Ciphertexts
    /\ dc_scheme = "none"
    /\ initialization_vector = <<>>
    /\ dc_data = <<>>
    /\ dc_pc = "row"

\* lines 391-393
dc_skip ==
    /\ dc_pc = "row"
    /\ encrypted_password = <<>>
    /\ dc_scheme' = "skip"
    /\ dc_pc' = "done"
    /\ UNCHANGED <<dcInputs, initialization_vector, dc_data>>

\* lines 396-415
dc_decrypt ==
    /\ dc_pc = "row"
    /\ encrypted_password # <<>>
    /\ IF startswith(encrypted_password, <<"v", "1", "0">>)
         THEN /\ dc_scheme' = "AESGCM"
              /\ initialization_vector' = slice(encrypted_password, 3, 15)
              /\ dc_data' = slice(encrypted_password, 15, Len(encrypted_password))
         ELSE /\ dc_scheme' = "DPAPI"
              /\ dc_data' = encrypted_password
              /\ UNCHANGED initialization_vector
    /\ dc_pc' = "done"
    /\ UNCHANGED dcInputs

NextDecrypt == dc_skip \/ dc_decrypt

SpecDecrypt == InitDecrypt /\ [][NextDecrypt]_vars

\* C29: a non-empty password_value that starts with v10 or v11 goes to the
\* AEAD decryption with bytes 3..14 as nonce and the bytes after them as
\* ciphertext and tag; every other non-empty one goes whole to the unwrapping
\* of the operating system.
C29_SchemeByPrefix ==
    (dc_pc = "done" /\ encrypted_password # <<>>) =>
        IF \/ startswith(encrypted_password, <<"v", "1", "0">>)
           \/ startswith(encrypted_password, <<"v", "1", "1">>)
          THEN /\ dc_scheme = "AESGCM"
               /\ initialization_vector =
                    [i \in 1..(IF Len(encrypted_password) < 15
                                 THEN Len(encrypted_password) - 3 ELSE 12) |->
                       encrypted_password[i + 3]]
               /\ dc_data = [i \in 1..(IF Len(encrypted_password) < 15 THEN 0
                                        ELSE Len(encrypted_password) - 15) |->
                               encrypted_password[i + 15]]
          ELSE /\ dc_scheme = "DPAPI"
               /\ dc_data = encrypted_password

\* ---- BookmarkExtractor._write_bookmark_html ----

\* int() of a float (lines 297, 302): the fraction is dropped, towards zero
int(u) ==
    IF u.high < 0 /\ u.micro > 0
      THEN add([u EXCEPT !.micro = 0], [high |-> 0, low |-> 1, micro |-> 0])
      ELSE [u EXCEPT !.micro = 0]

hwInputs == <<date_added, date_modified, is_folder, hwOthers>>

\* a bookmark of the list being exported; date_added and date_modified are 0
\* when the Bookmarks file has none (lines 183-184, 214-215, 231-232)
InitHtmlWrite ==
    /\ hwIdleOthers
    /\ date_added \in TimeInputs
    /\ date_modified \in TimeInputs
    /\ is_folder \in BOOLEAN
    /\ ADD_DATE = "none"
    /\ LAST_MODIFIED = "none"
    /\ hw_pc = "write"

\* lines 296-298 and 300-302; the string of line 298, the only use of
\* max(0, ...), is not written
hw_folder ==
    /\ hw_pc = "write"
    /\ is_folder
    /\ ADD_DATE' = int(subtract(date_added, chrome_to_unix_epoch_diff))
    /\ LAST_MODIFIED' = int(subtract(date_modified, chrome_to_unix_epoch_diff))
    /\ hw_pc' = "done"
    /\ UNCHANGED hwInputs

\* lines 296-298 and 310-312
hw_link ==
    /\ hw_pc = "write"
    /\ ~is_folder
    /\ ADD_DATE' = int(subtract(date_added, chrome_to_unix_epoch_diff))
    /\ hw_pc' = "done"
    /\ UNCHANGED <<hwInputs, LAST_MODIFIED>>

NextHtmlWrite == hw_folder \/ hw_link

SpecHtmlWrite == InitHtmlWrite /\ [][NextHtmlWrite]_vars

\* C30: every ADD_DATE and LAST_MODIFIED written is the clamped conversion of
\* the bookmark's timestamp, in whole seconds: never negative, and 0 for a
\* timestamp before the Unix epoch, the default 0 included.
C30_WrittenDatesClamped ==
    hw_pc = "done" =>
        /\ ADD_DATE =
             [clamp(subtract(date_added, chrome_to_unix_epoch_diff)) EXCEPT !.micro = 0]
        /\ is_folder =>
             LAST_MODIFIED =
               [clamp(subtract(date_modified, chrome_to_unix_epoch_diff)) EXCEPT !.micro = 0]

\* ---- the order of a merge ----

\* a step puts a row into the destination store that was not there, in the
\* open transaction or on disk
RowWritten ==
    \/ txn'.places \ txn.places # {}
    \/ txn'.visits \ txn.visits # {}
    \/ dest'.places \ dest.places # {}
    \/ dest'.visits \ dest.visits # {}

\* C31: no row is written to the destination store before the extracted items
\* are complete in the temporary database and before the snapshot of the
\* destination store file has been created.
C31_WritesAfterSnapshot ==
    [][RowWritten =>
         /\ tempDb = save_to_sqlite(history_items)
         /\ backup.exists
         /\ backup = pre]_vars

\* a row of the source has been inserted in the open transaction, with the
\* snapshot in place
C31_Witness ==
    /\ pc = "m_visit"
    /\ txn.places \ pre.places # {}
    /\ backup.exists
    /\ backup = pre

\* C32: a cancellation raised at the progress report of a row of the
\* decryption loop is not absorbed by the handler of the row: it goes from
\* that report to the handler of the channel, so that no further row is
\* decrypted or reported.
C32_CancellationLeavesLoop ==
    [][(x_pc = "row" /\ x_i <= Len(logins) /\ xRaises) => x_pc' = "direct_except"]_vars

\* C33: in every state of a merge on an existing destination store, also after
\* a restore attempt that failed, the store file or its snapshot exists: the
\* snapshot is not deleted while the store is missing.
C33_StoreOrSnapshotExists ==
    pre.exists => (dest.exists \/ backup.exists)

\* C34: a merge only inserts: the rows the destination store had before the
\* merge are in the open transaction with their fields unchanged, and after a
\* successful merge they are in the store.
C34_MergeOnlyInserts ==
    /\ txn.exists => (pre.places \subseteq txn.places /\ pre.visits \subseteq txn.visits)
    /\ (pc = "done" /\ result = "true") =>
           (pre.places \subseteq dest.places /\ pre.visits \subseteq dest.visits)

\* a successful merge into a store that had rows, and that got new ones
C34_Witness ==
    /\ pc = "done"
    /\ result = "true"
    /\ pre.places # {}
    /\ pre.visits # {}
    /\ dest.places # pre.places
    /\ dest.visits # pre.visits

\* C35: a run of synchronize_all that set the flag leaves it cleared on every
\* exit path, so that with no run under way the flag is clear and a trigger is
\* accepted; a trigger rejected because of the flag leaves the flag set.
C35_FlagClearedOnExit ==
    [][/\ \A t \in Threads :
            /\ (t \in InFlight /\ s_pc'[t] = "done") => ~sync_in_progress'
            /\ (s_pc[t] = "check" /\ s_pc'[t] = "done") =>
                   (sync_in_progress /\ sync_in_progress')
            /\ (s_pc[t] = "check" /\ ~sync_in_progress) => s_pc'[t] # "done"
       /\ (\A t \in Threads : s_pc'[t] \in {"check", "done"}) => ~sync_in_progress']_vars

\* the run of t1 has ended after a type failed, the flag is clear and the
\* trigger of t2 is still to come
C35_Witness ==
    /\ s_pc["t1"] = "done"
    /\ failed["t1"] # {}
    /\ s_pc["t2"] = "check"
    /\ ~sync_in_progress

\* C36: after stop_service has returned True, and until the service is started
\* again, no turn of a polling loop invokes a launch or close callback,
\* whatever the interleaving of stop_service with the thread start_service
\* created.
C36_SilentAfterStop ==
    [][(sv_status = "stopped" /\ api_pc = "idle") =>
         \A k \in 1..Len(monitors) :
           Reported(k) # "none" => monitors[k]._callbacks[Reported(k)] = <<>>]_vars

\* the monitors that are running and have a thread in their polling loop
Polling ==
    {k \in 1..Len(monitors) :
       /\ monitors[k].running
       /\ \E i \in 1..Len(sv_threads) :
            sv_threads[i].pc = "loop" /\ sv_threads[i].mon = k}

\* C37: at any time at most one process monitor created by the ServiceManager
\* is actively polling, over every sequence of start_service, stop_service,
\* restart_service and configure_auto_startup, failed calls included.
C37_OnePollingMonitor == Cardinality(Polling) <= 1

\* C38: while authentication is required and no valid token is held, a run of
\* synchronize_all calls no extract and no import of any type, and it returns
\* False, whichever types are selected.
C38_NoSyncWithoutToken ==
    \A t \in Threads :
        (require_auth /\ ~tokenValid) =>
            /\ extractTried[t] = {}
            /\ importTried[t] = {}
            /\ (t \in callers /\ s_pc[t] = "done") => s_ret[t] = "false"

\* ---- one monitor and its polling thread ----

\* the calls of poll_once the polling thread makes
MaxPolls == 3

\* the thread of service_manager.py 82-92 has created the monitor; callbacks
\* are registered
InitPolling ==
    /\ plIdleOthers
    /\ pl_monitor \in {[NewMonitor EXCEPT !._callbacks = cbs] :
                         cbs \in [Events -> {<<>>, <<"f">>, <<"f", "g">>}]}
    /\ pl_chrome \in BOOLEAN
    /\ pl_at_start = "none"
    /\ pl_events = <<>>
    /\ pl_before = pl_monitor
    /\ pl_event = "none"
    /\ pl_i = 0
    /\ pl_calls = <<>>
    /\ pl_polls = 0
    /\ pl_pc = "off"
    /\ pl_main = "new"

\* a Chrome process appears or the last one exits
pl_chrome_changes ==
    /\ pl_main # "off"
    /\ pl_chrome' = ~pl_chrome
    /\ UNCHANGED <<plOthers, pl_monitor, pl_at_start, pl_events, pl_before, pl_event, pl_i,
                   pl_calls, pl_polls, pl_pc, pl_main>>

\* process_monitor.py 122-135 called by the creating thread, which then
\* starts the polling thread (service_manager.py 85-92)
pl_start ==
    /\ pl_main = "new"
    /\ pl_monitor' = monitor_start(pl_monitor, pl_chrome)
    /\ pl_at_start' = IF pl_chrome THEN "true" ELSE "false"
    /\ pl_events' = <<>>
    /\ pl_main' = "started"
    /\ pl_pc' = "start"
    /\ UNCHANGED <<plOthers, pl_chrome, pl_before, pl_event, pl_i, pl_calls, pl_polls>>

\* process_monitor.py 137-142 called by the creating thread
\* (service_manager.py 119-120), wherever the polling thread is
pl_stop ==
    /\ pl_main = "started"
    /\ pl_monitor' = monitor_stop(pl_monitor)
    /\ pl_main' = "stopped"
    /\ UNCHANGED <<plOthers, pl_chrome, pl_at_start, pl_events, pl_before, pl_event, pl_i,
                   pl_calls, pl_polls, pl_pc>>

\* line 176: run_polling_loop calls start(), which returns at once when the
\* monitor is running
pl_loop_start ==
    /\ pl_pc = "start"
    /\ pl_monitor' = monitor_start(pl_monitor, pl_chrome)
    /\ IF pl_monitor.running
         THEN UNCHANGED <<pl_at_start, pl_events>>
         ELSE /\ pl_at_start' = IF pl_chrome THEN "true" ELSE "false"
              /\ pl_events' = <<>>
    /\ pl_pc' = "while"
    /\ UNCHANGED <<plOthers, pl_chrome, pl_before, pl_event, pl_i, pl_calls, pl_polls,
                   pl_main>>

\* line 179
pl_while ==
    /\ pl_pc = "while"
    /\ IF pl_monitor.running
         THEN /\ pl_polls < MaxPolls
              /\ pl_pc' = "call"
         ELSE pl_pc' = "finally"
    /\ UNCHANGED <<plOthers, pl_monitor, pl_chrome, pl_at_start, pl_events, pl_before,
                   pl_event, pl_i, pl_calls, pl_polls, pl_main>>

\* line 180, poll_once up to the call of _trigger_callbacks or the return
pl_poll ==
    /\ pl_pc = "call"
    /\ LET p == poll_once(pl_monitor, pl_chrome)
       IN  /\ pl_before' = pl_monitor
           /\ pl_monitor' = p.mon
           /\ pl_event' = p.event
           /\ pl_calls' = <<>>
           /\ pl_polls' = pl_polls + 1
           /\ IF p.event = "none"
                THEN /\ pl_pc' = "sleep"
                     /\ UNCHANGED <<pl_events, pl_i>>
                ELSE /\ pl_pc' = "trigger"
                     /\ pl_events' = Append(pl_events, p.event)
                     /\ pl_i' = 1
    /\ UNCHANGED <<plOthers, pl_chrome, pl_at_start, pl_main>>

\* line 154 raises, psutil fails in a way is_chrome_running does not catch
\* (lines 93-103): lines 184-185
pl_raise ==
    /\ pl_pc = "call"
    /\ pl_monitor.running
    /\ pl_pc' = "finally"
    /\ UNCHANGED <<plOthers, pl_monitor, pl_chrome, pl_at_start, pl_events, pl_before,
                   pl_event, pl_i, pl_calls, pl_polls, pl_main>>

\* lines 115-120: the next callback is called; whether it returns or raises,
\* the loop goes on
pl_trigger ==
    /\ pl_pc = "trigger"
    /\ pl_i <= Len(pl_monitor._callbacks[pl_event])
    /\ pl_calls' = Append(pl_calls, pl_monitor._callbacks[pl_event][pl_i])
    /\ pl_i' = pl_i + 1
    /\ UNCHANGED <<plOthers, pl_monitor, pl_chrome, pl_at_start, pl_events, pl_before,
                   pl_event, pl_polls, pl_pc, pl_main>>

\* lines 161 and 168, poll_once returns
pl_return ==
    /\ pl_pc = "trigger"
    /\ pl_i > Len(pl_monitor._callbacks[pl_event])
    /\ pl_pc' = "sleep"
    /\ UNCHANGED <<plOthers, pl_monitor, pl_chrome, pl_at_start, pl_events, pl_before,
                   pl_event, pl_i, pl_calls, pl_polls, pl_main>>

\* line 181
pl_sleep ==
    /\ pl_pc = "sleep"
    /\ pl_pc' = "while"
    /\ UNCHANGED <<plOthers, pl_monitor, pl_chrome, pl_at_start, pl_events, pl_before,
                   pl_event, pl_i, pl_calls, pl_polls, pl_main>>

\* line 187
pl_finally ==
    /\ pl_pc = "finally"
    /\ pl_monitor' = monitor_stop(pl_monitor)
    /\ pl_pc' = "done"
    /\ UNCHANGED <<plOthers, pl_chrome, pl_at_start, pl_events, pl_before, pl_event, pl_i,
                   pl_calls, pl_polls, pl_main>>

NextPolling ==
    \/ pl_chrome_changes
    \/ pl_start
    \/ pl_stop
    \/ pl_loop_start
    \/ pl_while
    \/ pl_poll
    \/ pl_raise
    \/ pl_trigger
    \/ pl_return
    \/ pl_sleep
    \/ pl_finally

SpecPolling == InitPolling /\ [][NextPolling]_vars

\* C40: of the events notified since the start() that started the monitor,
\* no two in a row are the same and the first is on_chrome_launch exactly
\* when Chrome was not running at that start(); a poll_once called on a
\* stopped monitor has invoked no callback and has left the monitor as it was.
C40_NotificationsAlternate ==
    /\ \A n \in 1..(Len(pl_events) - 1) : pl_events[n] # pl_events[n + 1]
    /\ pl_events # <<>> => (pl_events[1] = "on_chrome_launch" <=> pl_at_start = "false")
    /\ (pl_pc \in {"trigger", "sleep"} /\ ~pl_before.running) =>
          /\ pl_event = "none"
          /\ pl_calls = <<>>
          /\ pl_monitor = pl_before

\* Chrome ran at start(): a close and a launch were notified, then the
\* monitor was stopped and poll_once, called after Chrome had exited again,
\* notified nothing
C40_Witness ==
    /\ pl_at_start = "true"
    /\ Len(pl_events) >= 2
    /\ pl_events[1] = "on_chrome_close"
    /\ pl_pc = "sleep"
    /\ ~pl_before.running
    /\ pl_chrome # pl_monitor.chrome_detected
    /\ pl_events[2] = "on_chrome_launch"
    /\ pl_before._callbacks["on_chrome_close"] # <<>>

====
